---- MODULE Spec2Model ----
(***************************************************************************)
(* Model of the CEM/SSMF codec (coderbot16/cem): the primitive codec, the  *)
(* V2 and V5 model codecs, the header check and the scene assembler.       *)
(* A stream is a sequence of bytes; a reader is a function of (stream,     *)
(* position) returning a result record; a writer returns the bytes it put  *)
(* into the sink before it returned.  f32 values are carried as their 32   *)
(* bit patterns, which is what read_f32/write_f32 transport.               *)
(***************************************************************************)
EXTENDS Integers, Sequences, FiniteSets, TLC

VARIABLES pc, input, sink, result, builder, reader

vars == <<pc, input, sink, result, builder, reader>>

(***************************************************************************)
(* Bounds of the model.                                                    *)
(***************************************************************************)
\* longest in-memory string handed to the string writers
MaxStrLen == 3
\* most content bytes in a hand-made string field given to the readers
MaxField == 4
\* most LOD levels, materials and frames of a generated V2 model
MaxCount == 2
\* most nodes in a generated scene or scene stream
MaxNodes == 3
\* largest child count a node of a generated scene or scene stream declares
MaxChildren == 2

\* the most points one builder is updated with
MaxPoints == 3

(***************************************************************************)
(* Program constants.                                                      *)
(***************************************************************************)
\* pub const MAGIC: u32 = 0x464D5353
MAGIC == 1179407187
\* the char literal '\u{256}' the writers compare against (hexadecimal 256)
CharLimit == 598
\* '?' as u8
QuestionMark == 63

(***************************************************************************)
(* Results.                                                                *)
(***************************************************************************)
NoError == [kind |-> "None", msg |-> <<>>]

UnexpectedEof == [kind |-> "UnexpectedEof", msg |-> <<>>]

InvalidData(m) == [kind |-> "InvalidData", msg |-> m]

\* a successful read of value v that left the stream at position p
ReadOk(v, p) == [ok |-> TRUE, val |-> v, pos |-> p, err |-> NoError]

\* a failed read; no value is returned
ReadErr(e, p) == [ok |-> FALSE, val |-> <<>>, pos |-> p, err |-> e]

\* a successful write of bytes b
WriteOk(b) == [ok |-> TRUE, bytes |-> b, err |-> NoError]

\* a failed write that had already put bytes b into the sink
WriteErr(e, b) == [ok |-> FALSE, bytes |-> b, err |-> e]

\* w1 ? ; then w2 : the second write runs only when the first succeeded
Then(w1, w2) ==
  IF w1.ok THEN [ok |-> w2.ok, bytes |-> w1.bytes \o w2.bytes, err |-> w2.err]
  ELSE w1

(***************************************************************************)
(* byteorder: little-endian scalars.                                       *)
(***************************************************************************)
write_u8(v) == <<v % 256>>

write_u16(v) == <<v % 256, (v \div 256) % 256>>

write_u32(v) ==
  <<v % 256, (v \div 256) % 256, (v \div 65536) % 256, (v \div 16777216) % 256>>

\* read_u8 that leaves the byte it returns in the stream
read_u8_stalled(s, p) ==
  IF p + 1 <= Len(s) THEN ReadOk(s[p + 1], p) ELSE ReadErr(UnexpectedEof, p)

read_u8(s, p) ==
  IF p + 1 <= Len(s) THEN ReadOk(s[p + 1], p + 1) ELSE ReadErr(UnexpectedEof, p)

read_u16(s, p) ==
  IF p + 2 <= Len(s) THEN ReadOk(s[p + 1] + 256 * s[p + 2], p + 2)
  ELSE ReadErr(UnexpectedEof, p)

read_u32(s, p) ==
  IF p + 4 <= Len(s)
  THEN ReadOk(s[p + 1] + 256 * s[p + 2] + 65536 * s[p + 3] + 16777216 * s[p + 4], p + 4)
  ELSE ReadErr(UnexpectedEof, p)

\* len > u32::max_value() as usize; 2^32 - 1 = 65536 * 65535 + 65535, and the
\* comparison is computed on the quotient so that it stays within 32 bit integers
exceeds_u32(len) == len \div 65536 > 65535

(***************************************************************************)
(* Sequencing.  A reader that reads several values in a row is a chain:    *)
(* r is the result so far (the values read, and the position reached) and  *)
(* x the next read, made at r.pos.  The ? operator ends the chain at the   *)
(* first failed read.  A count-driven loop of n passes is its first passes *)
(* followed by the remaining ones: half of them, or Stride of them when    *)
(* the count is large, so that a loop that fails early is left early.      *)
(***************************************************************************)
Stride == 16 * 16

\* the passes of a loop of n passes (n > 1) that are run first
first(n) == IF n > 2 * Stride THEN Stride ELSE n \div 2

\* nothing read yet, at position p
begin(p) == ReadOk(<<>>, p)

\* x?, then the value joins those read so far (a field initialiser, a Vec::push)
and_then(r, x) ==
  IF ~r.ok THEN r
  ELSE IF ~x.ok THEN x
  ELSE ReadOk(Append(r.val, x.val), x.pos)

then_u32(s, r) == and_then(r, read_u32(s, r.pos))

\* n consecutive read_u32 / read_f32 calls, each followed by ?: with n words
\* left in the stream all of them succeed, and otherwise the call at the first
\* word that is not whole returns its error
read_words(s, r, n) ==
  IF ~r.ok \/ n = 0 THEN r
  ELSE IF n <= (Len(s) - r.pos) \div 4
  THEN ReadOk(r.val \o [i \in 1..n |-> read_u32(s, r.pos + 4 * (i - 1)).val], r.pos + 4 * n)
  ELSE read_u32(s, r.pos + 4 * ((Len(s) - r.pos) \div 4))

RECURSIVE WriteAll(_)
\* the writes of ws in order, each followed by ?: the first failure ends them
WriteAll(ws) ==
  IF Len(ws) = 0 THEN WriteOk(<<>>) ELSE Then(ws[1], WriteAll(Tail(ws)))

RECURSIVE write_words(_)
\* consecutive write_u32 / write_f32 calls, one per element of vs
write_words(vs) ==
  IF Len(vs) = 0 THEN <<>> ELSE write_u32(vs[1]) \o write_words(Tail(vs))

\* Vec::with_capacity(n).capacity(): std allocates exactly n elements for the
\* element types used here (none is zero-sized)
capacity(n) == n

(***************************************************************************)
(* Strings (lib.rs mod string, and the copy in encode.rs).  A String is a  *)
(* sequence of code points.                                                *)
(***************************************************************************)
RECURSIVE trim_right_nul(_)
\* str::trim_right_matches('\0')
trim_right_nul(s) ==
  IF Len(s) > 0 /\ s[Len(s)] = 0 THEN trim_right_nul(SubSeq(s, 1, Len(s) - 1)) ELSE s

\* the byte written for one char: if char < '\u{256}' { char as u8 } else { '?' as u8 }
iso_byte(c) == IF c < CharLimit THEN c % 256 ELSE QuestionMark

\* the encode.rs copy of the same expression
str_byte(c) == IF c < CharLimit THEN c % 256 ELSE QuestionMark

\* write_string_iso without the trim of trailing NUL characters
write_string_iso_untrimmed(s0) ==
  IF exceeds_u32(Len(s0) + 1)
  THEN WriteErr(InvalidData(<<"Cannot write a string more than 4GB long">>), <<>>)
  ELSE WriteOk(write_u32(Len(s0) + 1) \o [i \in 1..Len(s0) |-> iso_byte(s0[i])] \o write_u8(0))

\* string::write_string_iso, after the trim: s is the trimmed string
write_trimmed_iso(s) ==
  IF exceeds_u32(Len(s) + 1)
  THEN WriteErr(InvalidData(<<"Cannot write a string more than 4GB long">>), <<>>)
  ELSE WriteOk(write_u32(Len(s) + 1) \o [i \in 1..Len(s) |-> iso_byte(s[i])] \o write_u8(0))

\* string::write_string_iso
write_string_iso(s0) == write_trimmed_iso(trim_right_nul(s0))

\* encode.rs write_str, after the trim: s is the trimmed string
write_trimmed_str(s) ==
  IF exceeds_u32(Len(s) + 1)
  THEN WriteErr(InvalidData(<<"Cannot write a string more than 4GB long">>), <<>>)
  ELSE WriteOk(write_u32(Len(s) + 1) \o [i \in 1..Len(s) |-> str_byte(s[i])] \o write_u8(0))

\* encode.rs write_str (used by Encode for String and for Cow<str>)
write_str(s0) == write_trimmed_str(trim_right_nul(s0))

\* the state of the read loop before its first pass
no_string == [string |-> <<>>, end |-> FALSE]

\* one pass of the loop of read_string_iso, b being the read_u8 of that pass
iso_step(r, b) ==
  IF ~b.ok THEN b
  ELSE ReadOk([string |-> IF r.val.end \/ b.val = 0 THEN r.val.string
                          ELSE Append(r.val.string, b.val),
               end |-> r.val.end \/ b.val = 0], b.pos)

RECURSIVE iso_loop_break(_, _, _)
\* the loop of read_string_iso leaving at the first zero byte
iso_loop_break(s, r, n) ==
  IF ~r.ok \/ n = 0 \/ r.val.end THEN r
  ELSE IF n = 1 THEN iso_step(r, read_u8(s, r.pos))
  ELSE iso_loop_break(s, iso_loop_break(s, r, first(n)), n - first(n))

RECURSIVE iso_loop(_, _, _)
\* read_string_iso: for _ in 0..len
iso_loop(s, r, n) ==
  IF ~r.ok \/ n = 0 THEN r
  ELSE IF n = 1 THEN iso_step(r, read_u8(s, r.pos))
  ELSE iso_loop(s, iso_loop(s, r, first(n)), n - first(n))

\* Ok(string)
string_of(loop) == IF ~loop.ok THEN loop ELSE ReadOk(loop.val.string, loop.pos)

\* read_string_iso once the length is read
iso_body(s, len) ==
  IF ~len.ok THEN len ELSE string_of(iso_loop(s, ReadOk(no_string, len.pos), len.val))

\* string::read_string_iso
read_string_iso(s, p) == iso_body(s, read_u32(s, p))

\* one pass of the loop of Cow::read testing `end` before the zero byte sets it
cow_step_late_end(r, b) ==
  IF ~b.ok THEN b
  ELSE ReadOk([string |-> IF r.val.end THEN r.val.string ELSE Append(r.val.string, b.val),
               end |-> r.val.end \/ b.val = 0], b.pos)

\* one pass of the loop of <Cow<str> as Encode>::read
cow_step(r, b) ==
  IF ~b.ok THEN b
  ELSE ReadOk([string |-> IF r.val.end \/ b.val = 0 THEN r.val.string
                          ELSE Append(r.val.string, b.val),
               end |-> r.val.end \/ b.val = 0], b.pos)

RECURSIVE cow_loop(_, _, _)
\* <Cow<str> as Encode>::read: for _ in 0..len
cow_loop(s, r, n) ==
  IF ~r.ok \/ n = 0 THEN r
  ELSE IF n = 1 THEN cow_step(r, read_u8(s, r.pos))
  ELSE cow_loop(s, cow_loop(s, r, first(n)), n - first(n))

\* Cow::read once the length is read
cow_body(s, len) ==
  IF ~len.ok THEN len ELSE string_of(cow_loop(s, ReadOk(no_string, len.pos), len.val))

\* <Cow<str> as Encode>::read, which <String as Encode>::read maps into_owned
Cow_read(s, p) == cow_body(s, read_u32(s, p))

\* the two copies of the string codec, by the module that holds them
StringCodecs == {"string", "encode"}

StringWrite(codec, s) == IF codec = "string" THEN write_string_iso(s) ELSE write_str(s)

StringRead(codec, s, p) == IF codec = "string" THEN read_string_iso(s, p) ELSE Cow_read(s, p)

then_string(s, r) == and_then(r, read_string_iso(s, r.pos))

(***************************************************************************)
(* types.rs: Pos2, Pos3, Mat4; Aabb (cem.rs, collider.rs).                 *)
(***************************************************************************)
Pos2_read(s, p) == read_words(s, begin(p), 2)

Pos2_write(v) == write_words(<<v[1], v[2]>>)

Pos3_read(s, p) == read_words(s, begin(p), 3)

Pos3_write(v) == write_words(<<v[1], v[2], v[3]>>)

Mat4_read(s, p) == read_words(s, begin(p), 16)

Mat4_write(m) == write_words([i \in 1..16 |-> m[i]])

then_Pos2(s, r) == and_then(r, Pos2_read(s, r.pos))

then_Pos3(s, r) == and_then(r, Pos3_read(s, r.pos))

then_Mat4(s, r) == and_then(r, Mat4_read(s, r.pos))

\* Ok(Aabb { lower, upper })
Aabb_of(r) == IF ~r.ok THEN r ELSE ReadOk([lower |-> r.val[1], upper |-> r.val[2]], r.pos)

Aabb_read(s, p) == Aabb_of(then_Pos3(s, then_Pos3(s, begin(p))))

Aabb_write(b) == Pos3_write(b.lower) \o Pos3_write(b.upper)

then_Aabb(s, r) == and_then(r, Aabb_read(s, r.pos))

(***************************************************************************)
(* v2.rs                                                                   *)
(***************************************************************************)
\* Ok(Quantities { .. })
Quantities_of(r) ==
  IF ~r.ok THEN r
  ELSE ReadOk([triangles |-> r.val[1], vertices |-> r.val[2], tags |-> r.val[3],
               materials |-> r.val[4], frames |-> r.val[5],
               additional_models |-> r.val[6], lod_levels |-> r.val[7]], r.pos)

Quantities_read(s, p) == Quantities_of(read_words(s, begin(p), 7))

Quantities_write(q) ==
  write_words(<<q.triangles, q.vertices, q.tags, q.materials, q.frames,
                q.additional_models, q.lod_levels>>)

Triangle_read(s, p) == read_words(s, begin(p), 3)

Triangle_write(t) == write_words(<<t[1], t[2], t[3]>>)

\* Ok(TriangleSelection { offset, len })
TriangleSelection_of(r) ==
  IF ~r.ok THEN r ELSE ReadOk([offset |-> r.val[1], len |-> r.val[2]], r.pos)

TriangleSelection_read(s, p) == TriangleSelection_of(read_words(s, begin(p), 2))

TriangleSelection_write(x) == write_words(<<x.offset, x.len>>)

\* Ok(Root { name, center })
Root_of(r) == IF ~r.ok THEN r ELSE ReadOk([name |-> r.val[1], center |-> r.val[2]], r.pos)

Root_read(s, p) == Root_of(then_Pos3(s, then_string(s, begin(p))))

Root_write(r) == Then(write_string_iso(r.name), WriteOk(Pos3_write(r.center)))

\* Ok(Vertex { position, normal, texture })
Vertex_of(r) ==
  IF ~r.ok THEN r
  ELSE ReadOk([position |-> r.val[1], normal |-> r.val[2], texture |-> r.val[3]], r.pos)

Vertex_read(s, p) == Vertex_of(then_Pos2(s, then_Pos3(s, then_Pos3(s, begin(p)))))

Vertex_write(v) == Pos3_write(v.position) \o Pos3_write(v.normal) \o Pos2_write(v.texture)

RECURSIVE read_selections(_, _, _)
\* Material::read: for _ in 0..lod_levels { ranges.push(TriangleSelection::read(r)?) }
read_selections(s, r, n) ==
  IF ~r.ok \/ n = 0 THEN r
  ELSE IF n = 1 THEN and_then(r, TriangleSelection_read(s, r.pos))
  ELSE read_selections(s, read_selections(s, r, first(n)), n - first(n))

then_selections(s, r, n) == and_then(r, read_selections(s, begin(r.pos), n))

\* Ok(Material { .. }) with vertex_offset and vertex_count taken in the other order
Material_of_swapped(r) ==
  IF ~r.ok THEN r
  ELSE ReadOk([name |-> r.val[1], texture |-> r.val[2], triangles |-> r.val[3],
               vertex_offset |-> r.val[5], vertex_count |-> r.val[4],
               texture_name |-> r.val[6]], r.pos)

\* Ok(Material { name, texture, triangles, vertex_offset, vertex_count, texture_name })
Material_of(r) ==
  IF ~r.ok THEN r
  ELSE ReadOk([name |-> r.val[1], texture |-> r.val[2], triangles |-> r.val[3],
               vertex_offset |-> r.val[4], vertex_count |-> r.val[5],
               texture_name |-> r.val[6]], r.pos)

\* v2::Material::read
Material_read(s, p, lod_levels) ==
  Material_of(
    then_string(s, then_u32(s, then_u32(s,
      then_selections(s, then_u32(s, then_string(s, begin(p))), lod_levels)))))

RECURSIVE write_selections(_)
\* Material::write: for selection in &self.triangles { selection.write(w)? }
write_selections(xs) ==
  IF Len(xs) = 0 THEN <<>> ELSE TriangleSelection_write(xs[1]) \o write_selections(Tail(xs))

\* v2::Material::write
Material_write(m) ==
  WriteAll(<<write_string_iso(m.name),
             WriteOk(write_u32(m.texture)),
             WriteOk(write_selections(m.triangles)),
             WriteOk(write_u32(m.vertex_offset)),
             WriteOk(write_u32(m.vertex_count)),
             write_string_iso(m.texture_name)>>)

RECURSIVE read_vertices(_, _, _)
\* Frame::read: for _ in 0..vertex_count { vertices.push(Vertex::read(r)?) }
read_vertices(s, r, n) ==
  IF ~r.ok \/ n = 0 THEN r
  ELSE IF n = 1 THEN and_then(r, Vertex_read(s, r.pos))
  ELSE read_vertices(s, read_vertices(s, r, first(n)), n - first(n))

RECURSIVE read_tag_positions(_, _, _)
\* Frame::read: for _ in 0..tag_point_count { tag_points.push(Pos3::read(r)?) }
read_tag_positions(s, r, n) ==
  IF ~r.ok \/ n = 0 THEN r
  ELSE IF n = 1 THEN then_Pos3(s, r)
  ELSE read_tag_positions(s, read_tag_positions(s, r, first(n)), n - first(n))

then_vertices(s, r, n) == and_then(r, read_vertices(s, begin(r.pos), n))

then_tag_positions(s, r, n) == and_then(r, read_tag_positions(s, begin(r.pos), n))

\* Ok(Frame { radius, vertices, tag_points, transform, bound })
Frame_of(r) ==
  IF ~r.ok THEN r
  ELSE ReadOk([radius |-> r.val[1], vertices |-> r.val[2], tag_points |-> r.val[3],
               transform |-> r.val[4], bound |-> r.val[5]], r.pos)

\* Frame::read that reads no tag point, whatever their number
Frame_read_no_tags(s, p, vertex_count, tag_point_count) ==
  Frame_of(
    then_Aabb(s, then_Mat4(s,
      then_tag_positions(s, then_vertices(s, then_u32(s, begin(p)), vertex_count), 0))))

\* v2::Frame::read
Frame_read(s, p, vertex_count, tag_point_count) ==
  Frame_of(
    then_Aabb(s, then_Mat4(s,
      then_tag_positions(s, then_vertices(s, then_u32(s, begin(p)), vertex_count),
                         tag_point_count))))

RECURSIVE write_vertices(_)
\* Frame::write: for vertex in &self.vertices { vertex.write(w)? }
write_vertices(vs) ==
  IF Len(vs) = 0 THEN <<>> ELSE Vertex_write(vs[1]) \o write_vertices(Tail(vs))

RECURSIVE write_tag_positions(_)
\* Frame::write: for tag_point in &self.tag_points { tag_point.write(w)? }
write_tag_positions(ts) ==
  IF Len(ts) = 0 THEN <<>> ELSE Pos3_write(ts[1]) \o write_tag_positions(Tail(ts))

\* v2::Frame::write
Frame_write(f) ==
  write_u32(f.radius) \o write_vertices(f.vertices) \o write_tag_positions(f.tag_points)
    \o Mat4_write(f.transform) \o Aabb_write(f.bound)

RECURSIVE read_triangles(_, _, _)
\* Model::read: for _ in 0..count { triangles.push(Triangle::read(r)?) }
read_triangles(s, r, n) ==
  IF ~r.ok \/ n = 0 THEN r
  ELSE IF n = 1 THEN and_then(r, Triangle_read(s, r.pos))
  ELSE read_triangles(s, read_triangles(s, r, first(n)), n - first(n))

\* Model::read, one pass of the LOD loop once its count is read
read_lod_level(s, count) ==
  IF ~count.ok THEN count ELSE read_triangles(s, begin(count.pos), count.val)

RECURSIVE read_lod_levels(_, _, _)
\* Model::read: for _ in 0..lod_levels.capacity() { count; triangles; push }
read_lod_levels(s, r, n) ==
  IF ~r.ok \/ n = 0 THEN r
  ELSE IF n = 1 THEN and_then(r, read_lod_level(s, read_u32(s, r.pos)))
  ELSE read_lod_levels(s, read_lod_levels(s, r, first(n)), n - first(n))

RECURSIVE read_materials(_, _, _, _)
\* Model::read: for _ in 0..materials.capacity() { Material::read(r, lod_levels.len()) }
read_materials(s, r, n, lods) ==
  IF ~r.ok \/ n = 0 THEN r
  ELSE IF n = 1 THEN and_then(r, Material_read(s, r.pos, lods))
  ELSE read_materials(s, read_materials(s, r, first(n), lods), n - first(n), lods)

RECURSIVE read_tag_names(_, _, _)
\* Model::read: for _ in 0..tag_points.capacity() { string::read_string_iso(r) }
read_tag_names(s, r, n) ==
  IF ~r.ok \/ n = 0 THEN r
  ELSE IF n = 1 THEN then_string(s, r)
  ELSE read_tag_names(s, read_tag_names(s, r, first(n)), n - first(n))

RECURSIVE read_frames(_, _, _, _, _)
\* Model::read: for _ in 0..frames.capacity() { Frame::read(r, vertices, tag_points.len()) }
read_frames(s, r, n, vertex_count, tag_point_count) ==
  IF ~r.ok \/ n = 0 THEN r
  ELSE IF n = 1 THEN and_then(r, Frame_read(s, r.pos, vertex_count, tag_point_count))
  ELSE read_frames(s, read_frames(s, r, first(n), vertex_count, tag_point_count),
                   n - first(n), vertex_count, tag_point_count)

\* Model::read, its steps in order; r.val holds quantities, root, lod_levels,
\* materials, tag_points as far as they are read
then_Quantities(s, r) == and_then(r, Quantities_read(s, r.pos))

then_Root(s, r) == and_then(r, Root_read(s, r.pos))

then_lod_levels(s, r) ==
  IF ~r.ok THEN r
  ELSE and_then(r, read_lod_levels(s, begin(r.pos), capacity(r.val[1].lod_levels)))

then_materials(s, r) ==
  IF ~r.ok THEN r
  ELSE and_then(r, read_materials(s, begin(r.pos), capacity(r.val[1].materials),
                                  Len(r.val[3])))

then_tag_names(s, r) ==
  IF ~r.ok THEN r
  ELSE and_then(r, read_tag_names(s, begin(r.pos), capacity(r.val[1].tags)))

then_frames(s, r) ==
  IF ~r.ok THEN r
  ELSE and_then(r, read_frames(s, begin(r.pos), capacity(r.val[1].frames),
                               r.val[1].vertices, Len(r.val[5])))


\* Ok(Model { .. }) only when quantities.triangles is the length of LOD level 0
Model_of_validated(r) ==
  IF ~r.ok THEN r
  ELSE IF Len(r.val[3]) > 0 /\ r.val[1].triangles # Len(r.val[3][1])
  THEN ReadErr(InvalidData(<<"triangle count mismatch">>), r.pos)
  ELSE ReadOk([triangles |-> r.val[1].triangles,
               additional_models |-> r.val[1].additional_models,
               root |-> r.val[2],
               lod_levels |-> r.val[3],
               materials |-> r.val[4],
               tag_points |-> r.val[5],
               frames |-> r.val[6]], r.pos)

\* Ok(Model { .. })
Model_of(r) ==
  IF ~r.ok THEN r
  ELSE ReadOk([triangles |-> r.val[1].triangles,
               additional_models |-> r.val[1].additional_models,
               root |-> r.val[2],
               lod_levels |-> r.val[3],
               materials |-> r.val[4],
               tag_points |-> r.val[5],
               frames |-> r.val[6]], r.pos)

\* v2::Model::read
Model_read(s, p) ==
  Model_of(
    then_frames(s, then_tag_names(s, then_materials(s,
      then_lod_levels(s, then_Root(s, then_Quantities(s, begin(p))))))))

\* v2::Model::quantities
quantities(m) ==
  IF Len(m.materials) = 0
  THEN [ok |-> FALSE, val |-> <<>>, err |-> "A model must have at least 1 material"]
  ELSE IF Len(m.lod_levels) = 0
  THEN [ok |-> FALSE, val |-> <<>>, err |-> "A model must have at least 1 LOD level"]
  ELSE IF Len(m.frames) = 0
  THEN [ok |-> FALSE, val |-> <<>>, err |-> "A model must have at least 1 frame"]
  ELSE [ok |-> TRUE,
        val |-> [triangles |-> m.triangles,
                 vertices |-> Len(m.frames[1].vertices),
                 tags |-> Len(m.tag_points),
                 materials |-> Len(m.materials),
                 frames |-> Len(m.frames),
                 additional_models |-> m.additional_models,
                 lod_levels |-> Len(m.lod_levels)],
        err |-> "none"]

RECURSIVE write_triangles(_)
\* Model::write: for triangle in triangles { triangle.write(w)? }
write_triangles(ts) ==
  IF Len(ts) = 0 THEN <<>> ELSE Triangle_write(ts[1]) \o write_triangles(Tail(ts))

RECURSIVE write_lod_levels(_)
\* Model::write: for triangles in &self.lod_levels { len; triangles }
write_lod_levels(ls) ==
  IF Len(ls) = 0 THEN <<>>
  ELSE write_u32(Len(ls[1])) \o write_triangles(ls[1]) \o write_lod_levels(Tail(ls))

RECURSIVE write_materials(_)
\* Model::write: for material in &self.materials { material.write(w)? }
write_materials(ms) ==
  IF Len(ms) = 0 THEN WriteOk(<<>>) ELSE Then(Material_write(ms[1]), write_materials(Tail(ms)))

RECURSIVE write_tag_names(_)
\* Model::write: for tag_point in &self.tag_points { string::write_string_iso(w, tag_point)? }
write_tag_names(ns) ==
  IF Len(ns) = 0 THEN WriteOk(<<>>)
  ELSE Then(write_string_iso(ns[1]), write_tag_names(Tail(ns)))

RECURSIVE write_frames(_)
\* Model::write: for frame in &self.frames { frame.write(w)? }
write_frames(fs) ==
  IF Len(fs) = 0 THEN <<>> ELSE Frame_write(fs[1]) \o write_frames(Tail(fs))

\* Model::write after self.quantities(): everything it writes, in order
write_sections(m, q) ==
  WriteAll(<<WriteOk(Quantities_write(q)),
             Root_write(m.root),
             WriteOk(write_lod_levels(m.lod_levels)),
             write_materials(m.materials),
             write_tag_names(m.tag_points),
             WriteOk(write_frames(m.frames))>>)

\* Model::write, given the outcome q of self.quantities(), with the root
\* written before that outcome is looked at
write_checked_late(m, q) ==
  IF ~q.ok THEN Then(Root_write(m.root), WriteErr(InvalidData(<<q.err>>), <<>>))
  ELSE write_sections(m, q.val)

\* Model::write, given the outcome q of self.quantities():
\* map_err(|e| io::Error::new(io::ErrorKind::InvalidData, e))?, then the writes
write_checked(m, q) ==
  IF ~q.ok THEN WriteErr(InvalidData(<<q.err>>), <<>>) ELSE write_sections(m, q.val)

\* v2::Model::write
Model_write(m) == write_checked(m, quantities(m))

(***************************************************************************)
(* lib.rs: ModelHeader, and the header each codec expects.                 *)
(***************************************************************************)
then_u16(s, r) == and_then(r, read_u16(s, r.pos))

\* Ok(ModelHeader { magic, major, minor })
ModelHeader_of(r) ==
  IF ~r.ok THEN r
  ELSE ReadOk([magic |-> r.val[1], major |-> r.val[2], minor |-> r.val[3]], r.pos)

ModelHeader_read(s, p) == ModelHeader_of(then_u16(s, then_u16(s, then_u32(s, begin(p)))))

ModelHeader_write(h) == write_u32(h.magic) \o write_u16(h.major) \o write_u16(h.minor)

\* v1::EXPECTED_MODEL_HEADER
V1_EXPECTED_MODEL_HEADER == [magic |-> MAGIC, major |-> 1, minor |-> 3]

\* v2::EXPECTED_MODEL_HEADER
V2_EXPECTED_MODEL_HEADER == [magic |-> MAGIC, major |-> 2, minor |-> 0]

\* <V5 as Model>::HEADER
V5_HEADER == [magic |-> MAGIC, major |-> 5, minor |-> 0]

\* the panic of unimplemented!()
Unimplemented == [kind |-> "panic", msg |-> <<"not yet implemented">>]

(***************************************************************************)
(* v5.rs                                                                   *)
(***************************************************************************)
\* Ok(Quantities { .. }) of v5
V5_Quantities_of(r) ==
  IF ~r.ok THEN r
  ELSE ReadOk([unknown0 |-> r.val[1], unknown1 |-> r.val[2], tag_points |-> r.val[3],
               materials |-> r.val[4], frames |-> r.val[5],
               additional_models |-> r.val[6], lod_levels |-> r.val[7],
               points |-> r.val[8]], r.pos)

V5_Quantities_read(s, p) == V5_Quantities_of(read_words(s, begin(p), 8))

V5_Quantities_write(q) ==
  write_words(<<q.unknown0, q.unknown1, q.tag_points, q.materials, q.frames,
                q.additional_models, q.lod_levels, q.points>>)

\* <Point3<f32> as Encode>::read
Point3_read(s, p) == read_words(s, begin(p), 3)

\* <Point3<f32> as Encode>::write
Point3_write(v) == write_words(<<v[1], v[2], v[3]>>)

\* Ok(CommonVertex { unknown0, unknown1 })
CommonVertex_of(r) ==
  IF ~r.ok THEN r
  ELSE ReadOk([unknown0 |-> SubSeq(r.val, 1, 16), unknown1 |-> r.val[17]], r.pos)

CommonVertex_read(s, p) == CommonVertex_of(read_words(s, begin(p), 17))

\* Frame::read returning a frame of its own making
V5_Frame_read_made_up(s, p) == ReadOk([radius |-> 0], p)

\* v5::Frame::read
V5_Frame_read(s, p) == ReadErr(Unimplemented, p)

\* v5::ShadowEdge::read
ShadowEdge_read(s, p) == ReadErr(Unimplemented, p)

RECURSIVE read_common_vertices(_, _, _)
\* V5::read: for _ in 0..len { common_vertices.push(CommonVertex::read(r)?) }
read_common_vertices(s, r, n) ==
  IF ~r.ok \/ n = 0 THEN r
  ELSE IF n = 1 THEN and_then(r, CommonVertex_read(s, r.pos))
  ELSE read_common_vertices(s, read_common_vertices(s, r, first(n)), n - first(n))

\* V5::read, the common vertices once their length is read
common_vertices_of(s, len) ==
  IF ~len.ok THEN len ELSE read_common_vertices(s, begin(len.pos), len.val)

RECURSIVE read_halfwords(_, _, _)
\* n consecutive read_u16 calls, each followed by ?
read_halfwords(s, r, n) ==
  IF ~r.ok \/ n = 0 THEN r
  ELSE IF n = 1 THEN then_u16(s, r)
  ELSE read_halfwords(s, read_halfwords(s, r, first(n)), n - first(n))

RECURSIVE read_triangles16(_, _, _)
\* V5::read: for _ in 0..count { triangles.push((u16, u16, u16)) }
read_triangles16(s, r, n) ==
  IF ~r.ok \/ n = 0 THEN r
  ELSE IF n = 1 THEN and_then(r, read_halfwords(s, begin(r.pos), 3))
  ELSE read_triangles16(s, read_triangles16(s, r, first(n)), n - first(n))

\* V5::read, one pass of the LOD loop once its count is read
read_lod_level16(s, count) ==
  IF ~count.ok THEN count ELSE read_triangles16(s, begin(count.pos), count.val)

RECURSIVE read_lod_levels16(_, _, _)
\* V5::read: for _ in 0..lod_levels.capacity() { count; triangles; push }
read_lod_levels16(s, r, n) ==
  IF ~r.ok \/ n = 0 THEN r
  ELSE IF n = 1 THEN and_then(r, read_lod_level16(s, read_u32(s, r.pos)))
  ELSE read_lod_levels16(s, read_lod_levels16(s, r, first(n)), n - first(n))

RECURSIVE read_tag_strings(_, _, _)
\* V5::read: for _ in 0..quantities.tag_points { tag_points.push(String::read(r)?) }
read_tag_strings(s, r, n) ==
  IF ~r.ok \/ n = 0 THEN r
  ELSE IF n = 1 THEN and_then(r, Cow_read(s, r.pos))
  ELSE read_tag_strings(s, read_tag_strings(s, r, first(n)), n - first(n))

RECURSIVE read_frames5(_, _, _)
\* V5::read: for _ in 0..quantities.frames { frames.push(Frame::read(r)?) }
read_frames5(s, r, n) ==
  IF ~r.ok \/ n = 0 THEN r
  ELSE IF n = 1 THEN and_then(r, V5_Frame_read(s, r.pos))
  ELSE read_frames5(s, read_frames5(s, r, first(n)), n - first(n))

RECURSIVE read_points(_, _, _)
\* V5::read: for _ in 0..quantities.points { points.push(Point3::read(r)?) }
read_points(s, r, n) ==
  IF ~r.ok \/ n = 0 THEN r
  ELSE IF n = 1 THEN and_then(r, Point3_read(s, r.pos))
  ELSE read_points(s, read_points(s, r, first(n)), n - first(n))

RECURSIVE read_shadow_edges(_, _, _)
\* V5::read: for _ in 0..len { edges.push(ShadowEdge::read(r)?) }
read_shadow_edges(s, r, n) ==
  IF ~r.ok \/ n = 0 THEN r
  ELSE IF n = 1 THEN and_then(r, ShadowEdge_read(s, r.pos))
  ELSE read_shadow_edges(s, read_shadow_edges(s, r, first(n)), n - first(n))

\* V5::read, the shadow edges once their length is read
shadow_of(s, len) ==
  IF ~len.ok THEN len ELSE read_shadow_edges(s, begin(len.pos), len.val)

\* V5::read, its steps in order; r.val holds quantities, name, center,
\* common_vertices, lod_levels, materials, tag_points, frames, points as far as
\* they are read
then_V5_Quantities(s, r) == and_then(r, V5_Quantities_read(s, r.pos))

then_name(s, r) == and_then(r, Cow_read(s, r.pos))

then_center(s, r) == and_then(r, Point3_read(s, r.pos))

then_common_vertices(s, r) == and_then(r, common_vertices_of(s, read_u32(s, r.pos)))

then_lod_levels16(s, r) ==
  IF ~r.ok THEN r
  ELSE and_then(r, read_lod_levels16(s, begin(r.pos), capacity(r.val[1].lod_levels)))

then_materials5(s, r) ==
  IF ~r.ok THEN r
  ELSE and_then(r, read_materials(s, begin(r.pos), r.val[1].materials, r.val[1].lod_levels))

then_tag_strings(s, r) ==
  IF ~r.ok THEN r ELSE and_then(r, read_tag_strings(s, begin(r.pos), r.val[1].tag_points))

then_frames5(s, r) ==
  IF ~r.ok THEN r ELSE and_then(r, read_frames5(s, begin(r.pos), r.val[1].frames))

then_points(s, r) ==
  IF ~r.ok THEN r ELSE and_then(r, read_points(s, begin(r.pos), r.val[1].points))

then_shadow(s, r) == and_then(r, shadow_of(s, read_u32(s, r.pos)))

\* Ok((V5 { .. }, node))
V5_of(r) ==
  IF ~r.ok THEN r
  ELSE ReadOk([model |-> [quantities |-> r.val[1],
                          center |-> r.val[3],
                          common_vertices |-> r.val[4],
                          lod_levels |-> r.val[5],
                          materials |-> r.val[6],
                          tag_points |-> r.val[7],
                          frames |-> r.val[8],
                          points |-> r.val[9],
                          shadow |-> r.val[10]],
               node |-> [additional_models |-> r.val[1].additional_models,
                         name |-> r.val[2]]], r.pos)

\* <V5 as Model>::read
V5_read(s, p) ==
  V5_of(
    then_shadow(s, then_points(s, then_frames5(s, then_tag_strings(s, then_materials5(s,
      then_lod_levels16(s, then_common_vertices(s, then_center(s, then_name(s,
        then_V5_Quantities(s, begin(p))))))))))))

\* V5::quantities
V5_quantities(model, additional_models) ==
  [model.quantities EXCEPT !.additional_models = additional_models]

\* <V5 as Model>::write: quantities, name and center, then unimplemented!()
V5_write(model, node) ==
  WriteAll(<<WriteOk(V5_Quantities_write(V5_quantities(model, node.additional_models))),
             write_str(node.name),
             WriteOk(Point3_write(model.center)),
             WriteErr(Unimplemented, <<>>)>>)

(***************************************************************************)
(* V2 as a scene::Model.  The node data is the child count and the name    *)
(* the model body carries: read hands them to the scene, write takes them  *)
(* from the scene.                                                         *)
(***************************************************************************)
\* Ok((model, node))
V2_of(r) ==
  IF ~r.ok THEN r
  ELSE ReadOk([model |-> r.val,
               node |-> [additional_models |-> r.val.additional_models,
                         name |-> r.val.root.name]], r.pos)

\* <V2 as Model>::read
V2_read(s, p) == V2_of(Model_read(s, p))

\* <V2 as Model>::write
V2_write(model, node) ==
  Model_write([model EXCEPT !.additional_models = node.additional_models,
                            !.root.name = node.name])

(***************************************************************************)
(* scene.rs                                                                *)
(***************************************************************************)
\* the codecs a Scene<M> is instantiated with
Versions == {"V2", "V5"}

\* M::HEADER
HEADER(M) == IF M = "V2" THEN V2_EXPECTED_MODEL_HEADER ELSE V5_HEADER

\* M::read
M_read(M, s, p) == IF M = "V2" THEN V2_read(s, p) ELSE V5_read(s, p)

\* M::write
M_write(M, model, node) == IF M = "V2" THEN V2_write(model, node) ELSE V5_write(model, node)

\* format!("Wrong model header: expected {:?}, got {:?}", M::HEADER, header)
WrongHeader(M, header) ==
  InvalidData(<<"Wrong model header: expected ", HEADER(M), ", got ", header>>)

RECURSIVE Scene_read(_, _, _)

RECURSIVE Scene_read_without_header(_, _, _)

RECURSIVE read_children_unchecked(_, _, _, _)
\* read_without_header passing over the 8 header bytes of each child unread
read_children_unchecked(M, s, r, n) ==
  IF ~r.ok \/ n = 0 THEN r
  ELSE IF n = 1 THEN and_then(r, Scene_read_without_header(M, s, r.pos + 8))
  ELSE read_children_unchecked(M, s, read_children_unchecked(M, s, r, first(n)), n - first(n))

RECURSIVE read_children(_, _, _, _)
\* read_without_header: for _ in 0..additional_models { children.push(Scene::read(r)?) }
read_children(M, s, r, n) ==
  IF ~r.ok \/ n = 0 THEN r
  ELSE IF n = 1 THEN and_then(r, Scene_read(M, s, r.pos))
  ELSE read_children(M, s, read_children(M, s, r, first(n)), n - first(n))

\* Ok(scene) with the children left out when reading them failed
Scene_of_partial(body, children) ==
  IF ~children.ok
  THEN ReadOk([name |-> body.val.node.name, model |-> body.val.model, children |-> <<>>],
              children.pos)
  ELSE ReadOk([name |-> body.val.node.name, model |-> body.val.model,
               children |-> children.val], children.pos)

\* Ok(scene): Scene::single(node.name.into_owned(), model) with its children pushed
Scene_of(body, children) ==
  IF ~children.ok THEN children
  ELSE ReadOk([name |-> body.val.node.name, model |-> body.val.model,
               children |-> children.val], children.pos)

\* read_without_header once M::read has returned, reading one child at most
Scene_after_body_single(M, s, body) ==
  IF ~body.ok THEN body
  ELSE Scene_of(body, read_children(M, s, begin(body.pos),
                                    IF body.val.node.additional_models > 0 THEN 1 ELSE 0))

\* read_without_header once M::read has returned
Scene_after_body(M, s, body) ==
  IF ~body.ok THEN body
  ELSE Scene_of(body, read_children(M, s, begin(body.pos), body.val.node.additional_models))

\* the body of a node, refused when it reports more than one child
at_most_one_child(body) ==
  IF body.ok /\ body.val.node.additional_models > 1
  THEN ReadErr(InvalidData(<<"too many children">>), body.pos)
  ELSE body

\* read_without_header with a cap of its own on the child count
Scene_read_without_header_capped(M, s, p) ==
  Scene_after_body(M, s, at_most_one_child(M_read(M, s, p)))

\* Scene::read_without_header
Scene_read_without_header(M, s, p) == Scene_after_body(M, s, M_read(M, s, p))

\* Scene::read once the header is read, comparing magic and major only
Scene_after_header_any_minor(M, s, header) ==
  IF ~header.ok THEN header
  ELSE IF header.val.magic # HEADER(M).magic \/ header.val.major # HEADER(M).major
  THEN ReadErr(WrongHeader(M, header.val), header.pos)
  ELSE Scene_read_without_header(M, s, header.pos)

\* Scene::read once the header is read
Scene_after_header(M, s, header) ==
  IF ~header.ok THEN header
  ELSE IF header.val # HEADER(M) THEN ReadErr(WrongHeader(M, header.val), header.pos)
  ELSE Scene_read_without_header(M, s, header.pos)

\* Scene::read
Scene_read(M, s, p) == Scene_after_header(M, s, ModelHeader_read(s, p))

\* Scene::write: the node data of a scene without its children counted
NodeData_childless(scene) == [additional_models |-> 0, name |-> scene.name]

\* Scene::write: NodeData { additional_models: self.children.len() as u32, name }
NodeData_of(scene) == [additional_models |-> Len(scene.children), name |-> scene.name]

RECURSIVE Scene_write(_, _)

RECURSIVE write_children_reversed(_, _)
\* Scene::write writing the children last to first
write_children_reversed(M, cs) ==
  IF Len(cs) = 0 THEN WriteOk(<<>>)
  ELSE Then(write_children_reversed(M, Tail(cs)), Scene_write(M, cs[1]))

RECURSIVE write_children(_, _)
\* Scene::write: for child in &self.children { child.write(w)? }
write_children(M, cs) ==
  IF Len(cs) = 0 THEN WriteOk(<<>>)
  ELSE Then(Scene_write(M, cs[1]), write_children(M, Tail(cs)))

\* Scene::write that holds the header back when the body is not going to be written
Scene_write_prechecked(M, scene) ==
  Then(IF M_write(M, scene.model, NodeData_of(scene)).ok
       THEN WriteOk(ModelHeader_write(HEADER(M))) ELSE WriteOk(<<>>),
       Then(M_write(M, scene.model, NodeData_of(scene)),
            write_children(M, scene.children)))

\* Scene::write
Scene_write(M, scene) ==
  Then(WriteOk(ModelHeader_write(HEADER(M))),
       Then(M_write(M, scene.model, NodeData_of(scene)),
            write_children(M, scene.children)))

(***************************************************************************)
(* encode.rs: Matrix4<f32>.  A cgmath matrix holds four columns x, y, z,   *)
(* w, each a vector of four components x, y, z, w (the rows).              *)
(***************************************************************************)
\* cgmath Vector4::new(x, y, z, w)
Vector4_new(a) == [x |-> a[1], y |-> a[2], z |-> a[3], w |-> a[4]]

\* cgmath Matrix4::new(c0r0, c0r1, c0r2, c0r3, c1r0, .., c3r3): its arguments
\* are the elements column after column
Matrix4_new(a) ==
  [x |-> Vector4_new(SubSeq(a, 1, 4)), y |-> Vector4_new(SubSeq(a, 5, 8)),
   z |-> Vector4_new(SubSeq(a, 9, 12)), w |-> Vector4_new(SubSeq(a, 13, 16))]

\* Ok(Matrix4::new(..)) handing the values to Matrix4::new in the order read
Matrix4_of_unpermuted(r) ==
  IF ~r.ok THEN r ELSE ReadOk(Matrix4_new(r.val), r.pos)

\* Ok(Matrix4::new(rows[0][0], rows[1][0], rows[2][0], rows[3][0], rows[0][1], ..)),
\* rows[i][j] being the value read at place 4 * i + j
Matrix4_of(r) ==
  IF ~r.ok THEN r
  ELSE ReadOk(Matrix4_new(<<r.val[1], r.val[5], r.val[9], r.val[13],
                            r.val[2], r.val[6], r.val[10], r.val[14],
                            r.val[3], r.val[7], r.val[11], r.val[15],
                            r.val[4], r.val[8], r.val[12], r.val[16]>>), r.pos)

\* <Matrix4<f32> as Encode>::read
Matrix4_read(s, p) == Matrix4_of(read_words(s, begin(p), 16))

\* <Matrix4<f32> as Encode>::write
Matrix4_write(m) ==
  write_words(<<m.x.x, m.y.x, m.z.x, m.w.x,
                m.x.y, m.y.y, m.z.y, m.w.y,
                m.x.z, m.y.z, m.z.z, m.w.z,
                m.x.w, m.y.w, m.z.w, m.w.w>>)

\* the two matrix codecs: cgmath Matrix4 (encode.rs) and the flat Mat4 (types.rs)
MatrixCodecs == {"Matrix4", "Mat4"}

MatrixWrite(codec, m) == IF codec = "Matrix4" THEN Matrix4_write(m) ELSE Mat4_write(m)

MatrixRead(codec, s, p) == IF codec = "Matrix4" THEN Matrix4_read(s, p) ELSE Mat4_read(s, p)

(***************************************************************************)
(* f32 arithmetic of collider.rs.  An f32 is a record: a number, one of    *)
(* the two infinities, or NaN.  The numbers are integers small enough for  *)
(* every sum, difference and product formed here to be exact in f32, and   *)
(* only even numbers are halved.  A square root that is not an integer is  *)
(* kept as the root of its argument (kind "sqrt").                         *)
(***************************************************************************)
Finite(v) == [kind |-> "num", v |-> v]

\* f32::INFINITY
INFINITY == [kind |-> "inf", v |-> 0]

\* -f32::INFINITY
NEG_INFINITY == [kind |-> "-inf", v |-> 0]

\* f32::NAN
NAN == [kind |-> "nan", v |-> 0]

\* a <= b on f32 values that are not NaN
f32_le(a, b) ==
  \/ a.kind = "-inf"
  \/ b.kind = "inf"
  \/ a.kind = "num" /\ b.kind = "num" /\ a.v <= b.v

\* a == b (PartialEq for f32): NaN equals nothing
f32_eq(a, b) == a.kind # "nan" /\ b.kind # "nan" /\ a = b

\* f32::min: a NaN argument is ignored
f32_min(a, b) ==
  IF a.kind = "nan" THEN b ELSE IF b.kind = "nan" THEN a
  ELSE IF f32_le(a, b) THEN a ELSE b

\* f32::max: a NaN argument is ignored
f32_max(a, b) ==
  IF a.kind = "nan" THEN b ELSE IF b.kind = "nan" THEN a
  ELSE IF f32_le(a, b) THEN b ELSE a

\* -a
f32_neg(a) ==
  IF a.kind = "inf" THEN NEG_INFINITY ELSE IF a.kind = "-inf" THEN INFINITY
  ELSE IF a.kind = "nan" THEN NAN ELSE Finite(0 - a.v)

\* a + b
f32_add(a, b) ==
  IF a.kind = "nan" \/ b.kind = "nan" THEN NAN
  ELSE IF a.kind = "num" /\ b.kind = "num" THEN Finite(a.v + b.v)
  ELSE IF a.kind = "num" THEN b
  ELSE IF b.kind = "num" \/ a.kind = b.kind THEN a
  ELSE NAN

\* a - b
f32_sub(a, b) == f32_add(a, f32_neg(b))

\* a * a
f32_square(a) ==
  IF a.kind = "nan" THEN NAN ELSE IF a.kind = "num" THEN Finite(a.v * a.v) ELSE INFINITY

\* a / 2.0
f32_half(a) == IF a.kind = "num" THEN Finite(a.v \div 2) ELSE a

\* the integer k with k * k <= n < (k + 1) * (k + 1)
isqrt(n) == CHOOSE k \in 0..n : k * k <= n /\ n < (k + 1) * (k + 1)

\* f32::sqrt
f32_sqrt(a) ==
  IF a.kind = "nan" \/ a.kind = "-inf" THEN NAN
  ELSE IF a.kind = "inf" THEN INFINITY
  ELSE IF a.v < 0 THEN NAN
  ELSE IF isqrt(a.v) * isqrt(a.v) = a.v THEN Finite(isqrt(a.v))
  ELSE [kind |-> "sqrt", v |-> a.v]

\* cgmath Point3 { x, y, z }
Point3(x, y, z) == [x |-> x, y |-> y, z |-> z]

\* a == b (derived PartialEq of Point3<f32>)
Point3_eq(a, b) == f32_eq(a.x, b.x) /\ f32_eq(a.y, b.y) /\ f32_eq(a.z, b.z)

\* cgmath MetricSpace::distance2 of two points: the squared length of their difference
distance2(a, b) ==
  f32_add(f32_add(f32_square(f32_sub(b.x, a.x)), f32_square(f32_sub(b.y, a.y))),
          f32_square(f32_sub(b.z, a.z)))

(***************************************************************************)
(* collider.rs                                                             *)
(***************************************************************************)
INFINITE_AABB ==
  [lower |-> Point3(INFINITY, INFINITY, INFINITY),
   upper |-> Point3(NEG_INFINITY, NEG_INFINITY, NEG_INFINITY)]

\* <Aabb as Default>::default
Aabb_default ==
  [lower |-> Point3(Finite(0), Finite(0), Finite(0)),
   upper |-> Point3(Finite(0), Finite(0), Finite(0))]

\* a == b (derived PartialEq of Aabb)
Aabb_eq(a, b) == Point3_eq(a.lower, b.lower) /\ Point3_eq(a.upper, b.upper)

\* Aabb::with that lets the upper corner follow the minimum as well
Aabb_with_min_only(box, point) ==
  [lower |-> Point3(f32_min(box.lower.x, point.x), f32_min(box.lower.y, point.y),
                    f32_min(box.lower.z, point.z)),
   upper |-> Point3(f32_min(box.upper.x, point.x), f32_min(box.upper.y, point.y),
                    f32_min(box.upper.z, point.z))]

\* Aabb::with
Aabb_with(box, point) ==
  [lower |-> Point3(f32_min(box.lower.x, point.x), f32_min(box.lower.y, point.y),
                    f32_min(box.lower.z, point.z)),
   upper |-> Point3(f32_max(box.upper.x, point.x), f32_max(box.upper.y, point.y),
                    f32_max(box.upper.z, point.z))]

\* CenterBuilder::begin
CenterBuilder_begin == [aabb |-> INFINITE_AABB]

\* CenterBuilder::update
CenterBuilder_update(self, point) == [aabb |-> Aabb_with(self.aabb, point)]

\* CenterBuilder::build returning the sum of the corners, not halved
CenterBuilder_build_sum(self) ==
  Point3(f32_add(self.aabb.upper.x, self.aabb.lower.x),
         f32_add(self.aabb.upper.y, self.aabb.lower.y),
         f32_add(self.aabb.upper.z, self.aabb.lower.z))

\* CenterBuilder::build
CenterBuilder_build(self) ==
  Point3(f32_half(f32_add(self.aabb.upper.x, self.aabb.lower.x)),
         f32_half(f32_add(self.aabb.upper.y, self.aabb.lower.y)),
         f32_half(f32_add(self.aabb.upper.z, self.aabb.lower.z)))

\* ColliderBuilder::begin
ColliderBuilder_begin(center) ==
  [center |-> center, aabb |-> INFINITE_AABB, radius_squared |-> Finite(0)]

\* ColliderBuilder::update keeping the distance of the latest point only
ColliderBuilder_update_latest(self, point) ==
  [center |-> self.center,
   aabb |-> Aabb_with(self.aabb, point),
   radius_squared |-> distance2(point, self.center)]

\* ColliderBuilder::update
ColliderBuilder_update(self, point) ==
  [center |-> self.center,
   aabb |-> Aabb_with(self.aabb, point),
   radius_squared |-> f32_max(self.radius_squared, distance2(point, self.center))]

\* ColliderBuilder::build returning the box it holds, whatever it is
ColliderBuilder_build_sentinel(self) ==
  [aabb |-> self.aabb, radius |-> f32_sqrt(self.radius_squared)]

\* ColliderBuilder::build
ColliderBuilder_build(self) ==
  [aabb |-> IF Aabb_eq(self.aabb, INFINITE_AABB) THEN Aabb_default ELSE self.aabb,
   radius |-> f32_sqrt(self.radius_squared)]

(***************************************************************************)
(* v1.rs: Material.  An Option is a sequence of no or one value.           *)
(***************************************************************************)
\* indices: len = r.read_u32()?, then len times indices.push(r.read_u32()?)
V1_indices(s, len) == IF ~len.ok THEN len ELSE read_words(s, begin(len.pos), len.val)

\* Some((string::read_string_iso(r)?, r.read_u32()?))
V1_Some(r) == IF ~r.ok THEN r ELSE ReadOk(<<<<r.val[1], r.val[2]>>>>, r.pos)

\* the match on the flag byte taking every byte but 0 for true
V1_texture_nonzero(s, flag) ==
  IF ~flag.ok THEN flag
  ELSE IF flag.val = 0 THEN ReadOk(<<>>, flag.pos)
  ELSE V1_Some(then_u32(s, then_string(s, begin(flag.pos))))

\* texture: match r.read_u8()? { 0 => None, 1 => Some(..), x => return Err(..) }
V1_texture(s, flag) ==
  IF ~flag.ok THEN flag
  ELSE IF flag.val = 0 THEN ReadOk(<<>>, flag.pos)
  ELSE IF flag.val = 1 THEN V1_Some(then_u32(s, then_string(s, begin(flag.pos))))
  ELSE ReadErr(InvalidData(<<"A boolean must be 0 or 1, got ", flag.val>>), flag.pos)

\* Ok(Material { indices, texture })
V1_Material_of(indices, texture) ==
  IF ~texture.ok THEN texture
  ELSE ReadOk([indices |-> indices.val, texture |-> texture.val], texture.pos)

\* the texture field, read once the indices are
V1_then_texture(s, indices) ==
  IF ~indices.ok THEN indices
  ELSE V1_Material_of(indices, V1_texture(s, read_u8(s, indices.pos)))

\* v1::Material::read
V1_Material_read(s, p) == V1_then_texture(s, V1_indices(s, read_u32(s, p)))

(***************************************************************************)
(* Inputs.                                                                 *)
(***************************************************************************)
\* code points: NUL, U+0001, 'H', U+00FF, U+0100, U+0255, U+0256, U+0391
Chars == {0, 1, 72, 255, 256, 597, 598, 913}

RECURSIVE SeqsUpTo(_, _)
\* all sequences over S of length at most n
SeqsUpTo(S, n) ==
  IF n = 0 THEN {<<>>}
  ELSE LET shorter == SeqsUpTo(S, n - 1) IN
       shorter \cup {Append(q, x) : q \in {r \in shorter : Len(r) = n - 1}, x \in S}

Strings == SeqsUpTo(Chars, MaxStrLen)

\* content bytes of hand-made string fields: NUL, 'H', 0xFF
FieldBytes == {0, 72, 255}

\* declared lengths of hand-made string fields; 257 needs its second length byte
FieldLens == 0..(MaxField + 1) \cup {257}

\* f32 bit patterns of 0.0, 0.5, 2.0 and 3.1415929 (0x40490F5B)
Floats == <<0, 1056964608, 1073741824, 1078529883>>

Fl(i) == Floats[(i % 4) + 1]

SampleVertex(f, v) ==
  [position |-> <<Fl(f), Fl(v), Fl(f + v)>>,
   normal |-> <<Fl(0), Fl(1), Fl(v)>>,
   texture |-> <<Fl(v), Fl(f)>>]

\* sixteen distinct f32 patterns, 0.5 + i ulp at index i
SampleTransform == [i \in 1..16 |-> Fl(1) + i]

SampleFrame(f, nv, nt) ==
  [radius |-> Fl(f),
   vertices |-> [v \in 1..nv |-> SampleVertex(f, v)],
   tag_points |-> [k \in 1..nt |-> <<Fl(k), Fl(2), Fl(f)>>],
   transform |-> SampleTransform,
   bound |-> [lower |-> <<Fl(0), Fl(0), Fl(0)>>, upper |-> <<Fl(f), Fl(2), Fl(3)>>]]

SampleMaterial(i, ns) ==
  [name |-> <<77, 48 + i>>,
   texture |-> 300 + i,
   triangles |-> [k \in 1..ns |-> [offset |-> k - 1, len |-> i]],
   vertex_offset |-> i,
   vertex_count |-> 65536 + i,
   texture_name |-> <<116>>]

\* a model with nl LOD levels (level k holds k triangles), nm materials and nf
\* frames of one vertex each, consistent in all its counts
BaseModel(nl, nm, nf) ==
  [triangles |-> IF nl = 0 THEN 0 ELSE 1,
   additional_models |-> 0,
   root |-> [name |-> <<83, 99>>, center |-> <<Fl(1), Fl(2), Fl(3)>>],
   lod_levels |-> [k \in 1..nl |-> [j \in 1..k |-> <<j - 1, j, 256 * k + j>>]],
   materials |-> [i \in 1..nm |-> SampleMaterial(i, nl)],
   tag_points |-> <<>>,
   frames |-> [f \in 1..nf |-> SampleFrame(f, 1, 0)]]

Variants ==
  {"plain", "stored_triangles", "children", "tags", "no_vertices", "extra_selection",
   "uneven_vertices", "uneven_tags", "nul_name", "trailing_nul", "wide_name"}

\* one departure from the base model per variant
Variant(v, nl, nm, nf) ==
  LET m == BaseModel(nl, nm, nf) IN
  CASE v = "plain" -> m
    [] v = "stored_triangles" -> [m EXCEPT !.triangles = 7]
    [] v = "children" -> [m EXCEPT !.additional_models = 3]
    [] v = "tags" ->
         [m EXCEPT !.tag_points = <<<<84>>, <<84, 50>>>>,
                   !.frames = [f \in 1..nf |-> SampleFrame(f, 2, 2)]]
    [] v = "no_vertices" -> [m EXCEPT !.frames = [f \in 1..nf |-> SampleFrame(f, 0, 0)]]
    [] v = "extra_selection" ->
         [m EXCEPT !.materials = [i \in 1..nm |-> SampleMaterial(i, IF i = 1 THEN nl + 1 ELSE nl)]]
    [] v = "uneven_vertices" ->
         [m EXCEPT !.frames = [f \in 1..nf |-> SampleFrame(f, IF f = 1 THEN 1 ELSE 2, 0)]]
    [] v = "uneven_tags" -> [m EXCEPT !.tag_points = <<<<84>>>>]
    [] v = "nul_name" -> [m EXCEPT !.root.name = <<83, 0, 99>>]
    [] v = "trailing_nul" ->
         [m EXCEPT !.materials = [i \in 1..nm |-> [SampleMaterial(i, nl) EXCEPT !.texture_name = <<116, 0>>]]]
    [] v = "wide_name" -> [m EXCEPT !.root.name = <<913, 99>>]

Models ==
  {Variant(v, nl, nm, nf) : v \in Variants, nl \in 0..MaxCount, nm \in 0..MaxCount, nf \in 0..MaxCount}

\* scenes and scene streams are generated from the child counts of their nodes,
\* listed parent first
Arities == SeqsUpTo(0..MaxChildren, MaxNodes) \ {<<>>}

\* "N1", "N2", ...: the name of the i-th node
NodeName(i) == <<78, 48 + i>>

Other(M) == IF M = "V2" THEN "V5" ELSE "V2"

\* headers put in front of a body: the three known ones, a wrong minor, a wrong
\* major, and a wrong magic in front of the V2 and the V5 version numbers
Headers ==
  {V1_EXPECTED_MODEL_HEADER, V2_EXPECTED_MODEL_HEADER, V5_HEADER,
   [magic |-> MAGIC, major |-> 2, minor |-> 1],
   [magic |-> MAGIC, major |-> 5, minor |-> 1],
   [magic |-> MAGIC, major |-> 3, minor |-> 0],
   [magic |-> MAGIC + 1, major |-> 2, minor |-> 0],
   [magic |-> MAGIC + 1, major |-> 5, minor |-> 0]}

\* bytes that follow a scene stream
Tails == {<<>>, <<7>>}

\* a V2 model body that declares `declared` child scenes
V2Body(name, declared) ==
  Model_write([BaseModel(1, 1, 1) EXCEPT !.additional_models = declared,
                                         !.root.name = name]).bytes

\* a V5 model body that declares `declared` child scenes: one common vertex, one
\* LOD level of one triangle, one material, one tag point, no frame, one point,
\* no shadow edge
V5Body(name, declared) ==
  write_words(<<5, 6, 1, 1, 0, declared, 1, 1>>)
    \o write_str(name).bytes
    \o write_words(<<Fl(1), Fl(2), Fl(3)>>)
    \o write_u32(1) \o write_words([i \in 1..17 |-> Fl(i)])
    \o write_u32(1) \o write_u16(0) \o write_u16(1) \o write_u16(2)
    \o Material_write(SampleMaterial(1, 1)).bytes
    \o write_str(<<84>>).bytes
    \o write_words(<<Fl(0), Fl(1), Fl(2)>>)
    \o write_u32(0)

\* the bytes of one node of a stream: its header, then its body
NodeBytes(node) ==
  ModelHeader_write(node.header)
    \o (IF node.format = "V2" THEN V2Body(node.name, node.declared)
        ELSE V5Body(node.name, node.declared))

RECURSIVE StreamOf(_)
\* the nodes of a stream one after the other
StreamOf(nodes) ==
  IF Len(nodes) = 0 THEN <<>> ELSE NodeBytes(nodes[1]) \o StreamOf(Tail(nodes))

\* the nodes of a stream for codec M with the child counts ar; node `odd`, if
\* there is one, is a node of the other version
StreamNodes(M, ar, odd) ==
  [i \in 1..Len(ar) |->
     [format |-> IF i = odd THEN Other(M) ELSE M,
      header |-> HEADER(IF i = odd THEN Other(M) ELSE M),
      name |-> NodeName(i),
      declared |-> ar[i]]]

RECURSIVE Sum(_)
\* the numbers of a sequence added up
Sum(ar) == IF Len(ar) = 0 THEN 0 ELSE ar[1] + Sum(Tail(ar))

\* the child counts of the scenes that are one complete tree
Trees ==
  {ar \in Arities :
     /\ Sum(ar) = Len(ar) - 1
     /\ \A j \in 1..(Len(ar) - 1) : Sum(SubSeq(ar, 1, j)) >= j}

RECURSIVE Repeat(_, _)
\* k copies of the sequence q, one after the other
Repeat(q, k) == IF k = 0 THEN <<>> ELSE q \o Repeat(q, k - 1)

RECURSIVE FullArities(_, _)
\* the child counts, parent first, of the tree of depth d in which every node
\* above the leaves has n children
FullArities(d, n) == IF d = 0 THEN <<0>> ELSE <<n>> \o Repeat(FullArities(d - 1, n), n)

\* the deepest tree read, and the most children per node in it
MaxDepth == MaxNodes - 1

MaxBranching == MaxChildren

\* what the models of a generated scene carry: sound models; models holding a
\* child count and a name of their own; a second node without materials
SceneKinds == {"sound", "stale", "empty_second"}

SampleV5(i) ==
  [quantities |-> [unknown0 |-> i, unknown1 |-> 6, tag_points |-> 0, materials |-> 0,
                   frames |-> 0, additional_models |-> 3, lod_levels |-> 0, points |-> 0],
   center |-> <<Fl(i), Fl(2), Fl(3)>>,
   common_vertices |-> <<>>, lod_levels |-> <<>>, materials |-> <<>>,
   tag_points |-> <<>>, frames |-> <<>>, points |-> <<>>, shadow |-> <<>>]

SampleV2(kind, i) ==
  [BaseModel(1, 1, 1) EXCEPT
     !.triangles = i,
     !.additional_models = IF kind = "stale" THEN 3 ELSE 0,
     !.root.name = IF kind = "stale" THEN <<88>> ELSE NodeName(i),
     !.materials = IF kind = "empty_second" /\ i = 2 THEN <<>> ELSE @]

NodeModel(M, kind, i) == IF M = "V2" THEN SampleV2(kind, i) ELSE SampleV5(i)

RECURSIVE BuildScene(_, _, _, _)

RECURSIVE BuildChildren(_, _, _, _, _, _)
\* up to n scenes built from the counts ar[i], ar[i + 1], ...
BuildChildren(M, kind, ar, i, n, acc) ==
  IF n = 0 \/ i > Len(ar) THEN [children |-> acc, next |-> i]
  ELSE LET c == BuildScene(M, kind, ar, i) IN
       BuildChildren(M, kind, ar, c.next, n - 1, Append(acc, c.scene))

\* the scene whose root is node i, with as many of its ar[i] children as ar holds
BuildScene(M, kind, ar, i) ==
  LET cs == BuildChildren(M, kind, ar, i + 1, ar[i], <<>>) IN
  [scene |-> [name |-> NodeName(i), model |-> NodeModel(M, kind, i),
              children |-> cs.children],
   next |-> cs.next]

\* the collection a flawed model lacks
Flaws == {"materials", "lod_levels", "frames"}

\* the model without the collection `flaw`
Emptied(model, flaw) ==
  CASE flaw = "materials" -> [model EXCEPT !.materials = <<>>]
    [] flaw = "lod_levels" -> [model EXCEPT !.lod_levels = <<>>]
    [] flaw = "frames" -> [model EXCEPT !.frames = <<>>]

RECURSIVE Flawed(_, _, _)
\* the scene with the model of its k-th node, parent first, lacking `flaw`
Flawed(scene, k, flaw) ==
  [name |-> scene.name,
   model |-> IF scene.name = NodeName(k) THEN Emptied(scene.model, flaw) ELSE scene.model,
   children |-> [i \in 1..Len(scene.children) |-> Flawed(scene.children[i], k, flaw)]]

RECURSIVE WithModel(_, _, _)
\* the scene with `model` as the model of its k-th node, parent first
WithModel(scene, k, model) ==
  [name |-> scene.name,
   model |-> IF scene.name = NodeName(k) THEN model ELSE scene.model,
   children |-> [i \in 1..Len(scene.children) |-> WithModel(scene.children[i], k, model)]]

\* bytes that follow a written scene: none, one byte, the start of one more node
TrailingBytes == {<<>>, <<7>>, ModelHeader_write(V2_EXPECTED_MODEL_HEADER) \o <<1, 0, 0, 0>>}

\* sixteen f32 patterns: all different ones (i ulp at place i, and 2.0 + i ulp),
\* and 1.0 at one place among zeros, for every place
ElementLists ==
  {[i \in 1..16 |-> i], [i \in 1..16 |-> Fl(2) + i]}
    \cup {[i \in 1..16 |-> IF i = j THEN 1065353216 ELSE 0] : j \in 1..16}

\* the in-memory matrix of a codec whose elements, column after column (for
\* Mat4: in array order), are a
MatrixOf(codec, a) == IF codec = "Matrix4" THEN Matrix4_new(a) ELSE a

\* a V5 model body up to its frames: quantities declaring `frames` frames, the
\* name "N", the center, one common vertex, one LOD level of one triangle, one
\* material and one tag point
V5Head(frames) ==
  write_words(<<5, 6, 1, 1, frames, 0, 1, 1>>)
    \o write_str(<<78>>).bytes
    \o write_words(<<Fl(1), Fl(2), Fl(3)>>)
    \o write_u32(1) \o write_words([i \in 1..17 |-> Fl(i)])
    \o write_u32(1) \o write_u16(0) \o write_u16(1) \o write_u16(2)
    \o Material_write(SampleMaterial(1, 1)).bytes
    \o write_str(<<84>>).bytes

\* a V5 model body: the head, one point, the shadow length and eight bytes more
V5Stream(frames, shadow) ==
  V5Head(frames) \o write_words(<<Fl(0), Fl(1), Fl(2)>>) \o write_u32(shadow)
    \o <<1, 2, 3, 4, 5, 6, 7, 8>>

\* flag bytes of hand-made V1 materials
Flags == {0, 1, 2, 128, 255}

\* what follows the flag byte: a texture name "H\u{FF}", the u32 7 and one
\* more byte
TextureBytes == write_u32(2) \o <<72, 255>> \o write_u32(7) \o <<9>>

\* the bytes of a V1 material with n indices, the flag byte, and the first
\* k bytes of TextureBytes
V1MaterialBytes(n, flag, k) ==
  write_u32(n) \o write_words([i \in 1..n |-> 40 + i]) \o <<flag>> \o SubSeq(TextureBytes, 1, k)

\* points with small even coordinates, some shared between points
Points ==
  { Point3(Finite(0), Finite(0), Finite(0)),
    Point3(Finite(2), Finite(0), Finite(0)),
    Point3(Finite(0 - 2), Finite(4), Finite(0)),
    Point3(Finite(0), Finite(0 - 4), Finite(6)),
    Point3(Finite(2), Finite(2), Finite(2)) }

\* centers: on a point, off every point, and one that is no location at all
Centers ==
  { Point3(Finite(0), Finite(0), Finite(0)),
    Point3(Finite(2), Finite(0), Finite(0)),
    Point3(Finite(1), Finite(0 - 1), Finite(3)),
    Point3(NAN, INFINITY, NEG_INFINITY) }

(***************************************************************************)
(* The harness: a caller with a Vec<u8> sink and a cursor over it.         *)
(***************************************************************************)
Init ==
  /\ pc = "idle"
  /\ input = <<>>
  /\ sink = <<>>
  /\ result = <<>>
  /\ builder = <<>>
  /\ reader = <<>>

\* write one string into the empty sink
WriteString ==
  /\ pc = "idle"
  /\ \E codec \in StringCodecs, s \in Strings :
       /\ input' = [codec |-> codec, s |-> s]
       /\ result' = StringWrite(codec, s)
       /\ sink' = sink \o StringWrite(codec, s).bytes
  /\ pc' = "string_written"
  /\ UNCHANGED <<builder, reader>>

\* read back the string just written, from the start of the sink
ReadString ==
  /\ pc = "string_written"
  /\ result.ok
  /\ result' = StringRead(input.codec, sink, 0)
  /\ pc' = "string_read"
  /\ UNCHANGED <<input, sink, builder, reader>>

\* read a string field from a hand-made stream: a length prefix, then any bytes
ReadField ==
  /\ pc = "idle"
  /\ \E codec \in StringCodecs, len \in FieldLens, body \in SeqsUpTo(FieldBytes, MaxField) :
       /\ input' = [codec |-> codec, len |-> len, body |-> body]
       /\ sink' = write_u32(len) \o body
       /\ result' = StringRead(codec, write_u32(len) \o body, 0)
  /\ pc' = "field_read"
  /\ UNCHANGED <<builder, reader>>

\* v2::Model::write of a generated model into the empty sink
WriteModel ==
  /\ pc = "idle"
  /\ \E m \in Models :
       /\ input' = m
       /\ result' = Model_write(m)
       /\ sink' = sink \o Model_write(m).bytes
  /\ pc' = "model_written"
  /\ UNCHANGED <<builder, reader>>

\* v2::Model::read of the bytes just written
ReadModel ==
  /\ pc = "model_written"
  /\ result.ok
  /\ result' = Model_read(sink, 0)
  /\ pc' = "model_read"
  /\ UNCHANGED <<input, sink, builder, reader>>

\* Scene::<M>::read of one node whose header is any of Headers and whose body
\* is in the format of either version
ReadForeignScene ==
  /\ pc = "idle"
  /\ \E M \in Versions, header \in Headers, format \in Versions :
       LET node == [format |-> format, header |-> header, name |-> NodeName(1),
                    declared |-> 0] IN
       /\ input' = [M |-> M, header |-> header, format |-> format, name |-> NodeName(1)]
       /\ sink' = NodeBytes(node)
       /\ result' = Scene_read(M, NodeBytes(node), 0)
  /\ pc' = "foreign_read"
  /\ UNCHANGED <<builder, reader>>

\* Scene::<M>::read of a stream of nodes, each under the header of its format
ReadScene ==
  /\ pc = "idle"
  /\ \E M \in Versions, ar \in Arities, odd \in 0..MaxNodes, tail \in Tails :
       /\ odd <= Len(ar)
       /\ input' = [M |-> M, nodes |-> StreamNodes(M, ar, odd), tail |-> tail]
       /\ sink' = StreamOf(StreamNodes(M, ar, odd)) \o tail
       /\ result' = Scene_read(M, StreamOf(StreamNodes(M, ar, odd)) \o tail, 0)
  /\ pc' = "scene_read"
  /\ UNCHANGED <<builder, reader>>

\* Scene::<M>::write of a generated scene into the empty sink
WriteScene ==
  /\ pc = "idle"
  /\ \E M \in Versions, kind \in SceneKinds, ar \in Arities :
       /\ input' = [M |-> M, kind |-> kind, scene |-> BuildScene(M, kind, ar, 1).scene]
       /\ result' = Scene_write(M, BuildScene(M, kind, ar, 1).scene)
       /\ sink' = sink \o Scene_write(M, BuildScene(M, kind, ar, 1).scene).bytes
  /\ pc' = "scene_written"
  /\ UNCHANGED <<builder, reader>>

\* Scene::<M>::read of the bytes just written
ReadBackScene ==
  /\ pc = "scene_written"
  /\ result.ok
  /\ result' = Scene_read(input.M, sink, 0)
  /\ pc' = "scene_read_back"
  /\ UNCHANGED <<input, sink, builder, reader>>

\* write of one matrix into the empty sink
WriteMatrix ==
  /\ pc = "idle"
  /\ \E codec \in MatrixCodecs, a \in ElementLists :
       /\ input' = [codec |-> codec, elements |-> a, matrix |-> MatrixOf(codec, a)]
       /\ result' = WriteOk(MatrixWrite(codec, MatrixOf(codec, a)))
       /\ sink' = sink \o MatrixWrite(codec, MatrixOf(codec, a))
  /\ pc' = "matrix_written"
  /\ UNCHANGED <<builder, reader>>

\* read back the matrix just written
ReadMatrix ==
  /\ pc = "matrix_written"
  /\ result' = MatrixRead(input.codec, sink, 0)
  /\ pc' = "matrix_read"
  /\ UNCHANGED <<input, sink, builder, reader>>

\* read of a matrix from sixteen values on the wire
ReadWire ==
  /\ pc = "idle"
  /\ \E codec \in MatrixCodecs, a \in ElementLists :
       /\ input' = [codec |-> codec, wire |-> a]
       /\ sink' = write_words(a)
       /\ result' = MatrixRead(codec, write_words(a), 0)
  /\ pc' = "wire_read"
  /\ UNCHANGED <<builder, reader>>

\* write of the matrix just read from the wire
RewriteWire ==
  /\ pc = "wire_read"
  /\ result.ok
  /\ result' = WriteOk(MatrixWrite(input.codec, result.val))
  /\ pc' = "wire_rewritten"
  /\ UNCHANGED <<input, sink, builder, reader>>

\* ColliderBuilder::begin around one of Centers
BeginCollider ==
  /\ pc = "idle"
  /\ \E center \in Centers :
       /\ builder' = ColliderBuilder_begin(center)
       /\ input' = [center |-> center, points |-> <<>>]
  /\ pc' = "collider"
  /\ UNCHANGED <<sink, result, reader>>

\* ColliderBuilder::update with one more point
UpdateCollider ==
  /\ pc = "collider"
  /\ Len(input.points) < MaxPoints
  /\ \E point \in Points :
       /\ builder' = ColliderBuilder_update(builder, point)
       /\ input' = [input EXCEPT !.points = Append(@, point)]
  /\ UNCHANGED <<pc, sink, result, reader>>

\* ColliderBuilder::build
BuildCollider ==
  /\ pc = "collider"
  /\ result' = ColliderBuilder_build(builder)
  /\ pc' = "collider_built"
  /\ UNCHANGED <<input, sink, builder, reader>>

\* CenterBuilder::begin
BeginCenter ==
  /\ pc = "idle"
  /\ builder' = CenterBuilder_begin
  /\ input' = [points |-> <<>>]
  /\ pc' = "center"
  /\ UNCHANGED <<sink, result, reader>>

\* CenterBuilder::update with one more point
UpdateCenter ==
  /\ pc = "center"
  /\ Len(input.points) < MaxPoints
  /\ \E point \in Points :
       /\ builder' = CenterBuilder_update(builder, point)
       /\ input' = [input EXCEPT !.points = Append(@, point)]
  /\ UNCHANGED <<pc, sink, result, reader>>

\* CenterBuilder::build
BuildCenter ==
  /\ pc = "center"
  /\ result' = CenterBuilder_build(builder)
  /\ pc' = "center_built"
  /\ UNCHANGED <<input, sink, builder, reader>>

\* v1::Material::read of a hand-made material
ReadMaterial ==
  /\ pc = "idle"
  /\ \E n \in 0..MaxCount, flag \in Flags, k \in 0..Len(TextureBytes) :
       /\ input' = [indices |-> n, flag |-> flag, rest |-> k]
       /\ sink' = V1MaterialBytes(n, flag, k)
       /\ result' = V1_Material_read(V1MaterialBytes(n, flag, k), 0)
  /\ pc' = "material_read"
  /\ UNCHANGED <<builder, reader>>

\* V5::read of the first `cut` bytes of a hand-made body
ReadV5 ==
  /\ pc = "idle"
  /\ \E frames \in 0..MaxCount, shadow \in 0..MaxCount :
       \E cut \in 0..Len(V5Stream(frames, shadow)) :
         /\ input' = [frames |-> frames, shadow |-> shadow, cut |-> cut]
         /\ sink' = SubSeq(V5Stream(frames, shadow), 1, cut)
         /\ result' = V5_read(SubSeq(V5Stream(frames, shadow), 1, cut), 0)
  /\ pc' = "v5_read"
  /\ UNCHANGED <<builder, reader>>

\* Scene::<M>::read of a reader that ends after the first `cut` bytes of the
\* encoding of one complete scene
ReadTruncatedScene ==
  /\ pc = "idle"
  /\ \E M \in Versions, ar \in Trees :
       \E cut \in 0..Len(StreamOf(StreamNodes(M, ar, 0))) :
         /\ input' = [M |-> M, nodes |-> StreamNodes(M, ar, 0), cut |-> cut]
         /\ sink' = SubSeq(StreamOf(StreamNodes(M, ar, 0)), 1, cut)
         /\ result' = Scene_read(M, SubSeq(StreamOf(StreamNodes(M, ar, 0)), 1, cut), 0)
  /\ pc' = "truncated_read"
  /\ UNCHANGED <<builder, reader>>

\* Scene::<M>::read of the encoding of one complete scene in which node `bad`
\* carries another header
ReadMisheadedScene ==
  /\ pc = "idle"
  /\ \E M \in Versions, ar \in Trees, format \in Versions :
       \E header \in Headers \ {HEADER(M)}, bad \in 1..Len(ar) :
         LET nodes == [StreamNodes(M, ar, 0) EXCEPT ![bad].header = header,
                                                    ![bad].format = format] IN
         /\ input' = [M |-> M, nodes |-> nodes, bad |-> bad]
         /\ sink' = StreamOf(nodes)
         /\ result' = Scene_read(M, StreamOf(nodes), 0)
  /\ pc' = "misheaded_read"
  /\ UNCHANGED <<builder, reader>>

\* Scene::<M>::read of the encoding of the tree of depth d with n children per node
ReadFullTree ==
  /\ pc = "idle"
  /\ \E M \in Versions, d \in 0..MaxDepth, n \in 0..MaxBranching :
       /\ d = 0 \/ n >= 1
       /\ d > 0 \/ n = 0
       /\ input' = [M |-> M, depth |-> d, branching |-> n,
                    nodes |-> StreamNodes(M, FullArities(d, n), 0)]
       /\ sink' = StreamOf(StreamNodes(M, FullArities(d, n), 0))
       /\ result' = Scene_read(M, StreamOf(StreamNodes(M, FullArities(d, n), 0)), 0)
  /\ pc' = "tree_read"
  /\ UNCHANGED <<builder, reader>>

\* Scene::<M>::write, into the empty sink, of a scene whose k-th node lacks a
\* collection
WriteFlawedScene ==
  /\ pc = "idle"
  /\ \E M \in Versions, ar \in Trees, flaw \in Flaws :
       \E k \in 1..Len(ar) :
         /\ input' = [M |-> M, k |-> k, flaw |-> flaw,
                      scene |-> Flawed(BuildScene(M, "sound", ar, 1).scene, k, flaw)]
         /\ result' = Scene_write(M, Flawed(BuildScene(M, "sound", ar, 1).scene, k, flaw))
         /\ sink' = sink \o Scene_write(M, Flawed(BuildScene(M, "sound", ar, 1).scene, k, flaw)).bytes
  /\ pc' = "flawed_written"
  /\ UNCHANGED <<builder, reader>>

\* Scene::<V2>::write, into the empty sink, of a scene whose k-th node carries
\* one of the generated models (V5::write never completes)
WriteVariantScene ==
  /\ pc = "idle"
  /\ \E ar \in Trees, v \in Variants :
       \E k \in 1..Len(ar) :
         LET scene == WithModel(BuildScene("V2", "sound", ar, 1).scene, k,
                                Variant(v, MaxCount, MaxCount, MaxCount)) IN
         /\ input' = [M |-> "V2", k |-> k, variant |-> v, scene |-> scene]
         /\ result' = Scene_write("V2", scene)
         /\ sink' = sink \o Scene_write("V2", scene).bytes
  /\ pc' = "variant_written"
  /\ UNCHANGED <<builder, reader>>

\* Scene::<V2>::read of the bytes just written with more bytes after them
ReadTailedScene ==
  /\ pc = "variant_written"
  /\ result.ok
  /\ \E tail \in TrailingBytes :
       /\ input' = [M |-> input.M, k |-> input.k, variant |-> input.variant,
                    scene |-> input.scene, written |-> Len(sink), tail |-> tail]
       /\ sink' = sink \o tail
       /\ result' = Scene_read(input.M, sink \o tail, 0)
  /\ pc' = "tailed_read"
  /\ UNCHANGED <<builder, reader>>

Next ==
  \/ WriteVariantScene
  \/ ReadTailedScene
  \/ WriteFlawedScene
  \/ ReadFullTree
  \/ ReadMisheadedScene
  \/ ReadTruncatedScene
  \/ ReadV5
  \/ ReadMaterial
  \/ BeginCollider
  \/ UpdateCollider
  \/ BuildCollider
  \/ BeginCenter
  \/ UpdateCenter
  \/ BuildCenter
  \/ WriteMatrix
  \/ ReadMatrix
  \/ ReadWire
  \/ RewriteWire
  \/ WriteString
  \/ ReadString
  \/ ReadField
  \/ WriteModel
  \/ ReadModel
  \/ ReadForeignScene
  \/ ReadScene
  \/ WriteScene
  \/ ReadBackScene

Spec == Init /\ [][Next]_vars

(***************************************************************************)
(* Scene::<V2>::read one loop pass at a time.  The reader keeps its        *)
(* position in the stream and the loops still to run, innermost first;     *)
(* a loop is [op, n, a, b]: n passes left, a and b what a pass is given.   *)
(* Values are not kept, only the counts that drive the loops; most is the   *)
(* largest count a loop was given so far.                                  *)
(***************************************************************************)
Loop(op, n, a, b) == [op |-> op, n |-> n, a |-> a, b |-> b]

\* a word of the stream is replaced by one of these: nothing, a small count,
\* a count beyond any stream (0xFFFFF)
Huge == 65536 * 15 + 65535

Counts == {0, 1, 2, 3, Huge}

\* the stream s with the u32 `value` in place of the four bytes at `at`
Patched(s, at, value) == SubSeq(s, 1, at) \o write_u32(value) \o SubSeq(s, at + 5, Len(s))

\* the places patched: the seven quantities of the root and the length of its name
Places == {8 + 4 * j : j \in 0..7}

\* the reader is created over a stream: the encoding of a scene, as it is or
\* with one word replaced
InitRead ==
  /\ pc = "reading"
  /\ \E ar \in Trees, at \in Places, value \in Counts \cup {0 - 1} :
       /\ input = [nodes |-> StreamNodes("V2", ar, 0), at |-> at, value |-> value]
       /\ sink = IF value < 0 THEN StreamOf(StreamNodes("V2", ar, 0))
                 ELSE Patched(StreamOf(StreamNodes("V2", ar, 0)), at, value)
  /\ result = <<>>
  /\ builder = <<>>
  /\ reader = [pos |-> 0, loops |-> <<Loop("scene", 1, 0, 0)>>, outcome |-> "running",
               err |-> NoError, most |-> 1]

Running == pc = "reading" /\ reader.outcome = "running"

\* the innermost loop and the loops around it
Innermost == reader.loops[1]

Outer == Tail(reader.loops)

\* the innermost loop with one pass less to run
OneLess == Loop(Innermost.op, Innermost.n - 1, Innermost.a, Innermost.b)

\* a read returned Err: it is returned from every caller
Fails(r) ==
  reader' = [pos |-> r.pos, loops |-> <<>>, outcome |-> "error", err |-> r.err,
             most |-> reader.most]

RECURSIVE Most(_, _)
\* the largest count among m and the loops ls
Most(m, ls) ==
  IF ls = <<>> THEN m ELSE Most(IF ls[1].n > m THEN ls[1].n ELSE m, Tail(ls))

\* the reads of a pass succeeded up to position p; the loops now are ls, and
\* with no loop left Ok(scene) is returned
Goes(p, ls) ==
  reader' = [pos |-> p, loops |-> ls, outcome |-> IF ls = <<>> THEN "ok" ELSE "running",
             err |-> NoError, most |-> Most(reader.most, ls)]

\* n consecutive read_u32 / read_f32 calls, each followed by ?, their values
\* dropped: the first word that is not whole in the stream fails
skip_words(s, p, n) ==
  IF p + 4 * n <= Len(s) THEN ReadOk(<<>>, p + 4 * n)
  ELSE ReadErr(UnexpectedEof, p + 4 * ((Len(s) - p) \div 4))

\* the u32 that is j words after position p
word(s, p, j) == read_u32(s, p + 4 * j).val

\* Scene::read, for the root and for each pass of the loop over the children:
\* the header is read and compared; M::read follows
StepScene ==
  /\ Running
  /\ Innermost.op \in {"scene", "children"}
  /\ Innermost.n > 0
  /\ LET header == ModelHeader_read(sink, reader.pos) IN
       IF ~header.ok THEN Fails(header)
       ELSE IF header.val # HEADER("V2")
       THEN Fails(ReadErr(WrongHeader("V2", header.val), header.pos))
       ELSE Goes(header.pos, <<Loop("model", 1, 0, 0), OneLess>> \o Outer)
  /\ UNCHANGED <<pc, input, sink, result, builder>>

\* Model::read up to its first loop: the quantities, then the length of the
\* root's name; the loops of the model and of read_without_header are set up
StepModel ==
  /\ Running
  /\ Innermost.op = "model"
  /\ IF ~skip_words(sink, reader.pos, 7 + 1).ok
     THEN Fails(skip_words(sink, reader.pos, 7 + 1))
     ELSE Goes(reader.pos + 4 * (7 + 1),
               <<Loop("bytes", word(sink, reader.pos, 7), 0, 0),
                 Loop("fixed", 1, 3, 0),
                 Loop("lod_levels", capacity(word(sink, reader.pos, 6)), 0, 0),
                 Loop("materials", capacity(word(sink, reader.pos, 3)),
                      word(sink, reader.pos, 6), 0),
                 Loop("tags", capacity(word(sink, reader.pos, 2)), 0, 0),
                 Loop("frames", capacity(word(sink, reader.pos, 4)),
                      word(sink, reader.pos, 1), word(sink, reader.pos, 2)),
                 Loop("children", word(sink, reader.pos, 5), 0, 0)>> \o Outer)
  /\ UNCHANGED <<pc, input, sink, result, builder>>

\* what one pass of a loop over fixed-size items reads: a byte, or the words
\* of a Triangle (3), a TriangleSelection (2), a Vertex (3 + 3 + 2), a Pos3 (3)
ItemRead(op, s, p) ==
  CASE op = "bytes" -> read_u8(s, p)
    [] op = "triangles" -> skip_words(s, p, 3)
    [] op = "selections" -> skip_words(s, p, 2)
    [] op = "vertices" -> skip_words(s, p, 3 + 3 + 2)
    [] op = "tag_positions" -> skip_words(s, p, 3)

\* one pass of a loop whose body is one item: a string byte, a triangle, a
\* triangle selection, a vertex, a tag position
StepItem ==
  /\ Running
  /\ Innermost.op \in {"bytes", "triangles", "selections", "vertices", "tag_positions"}
  /\ Innermost.n > 0
  /\ IF ~ItemRead(Innermost.op, sink, reader.pos).ok
     THEN Fails(ItemRead(Innermost.op, sink, reader.pos))
     ELSE Goes(ItemRead(Innermost.op, sink, reader.pos).pos, <<OneLess>> \o Outer)
  /\ UNCHANGED <<pc, input, sink, result, builder>>

\* reads outside any loop: a words in a row (a center, the fields of a material,
\* the transform and the bound of a frame)
StepFixed ==
  /\ Running
  /\ Innermost.op = "fixed"
  /\ IF ~skip_words(sink, reader.pos, Innermost.a).ok
     THEN Fails(skip_words(sink, reader.pos, Innermost.a))
     ELSE Goes(skip_words(sink, reader.pos, Innermost.a).pos, Outer)
  /\ UNCHANGED <<pc, input, sink, result, builder>>

\* read_string_iso up to its loop: the length
StepString ==
  /\ Running
  /\ Innermost.op \in {"string", "tags"}
  /\ Innermost.n > 0
  /\ IF ~read_u32(sink, reader.pos).ok THEN Fails(read_u32(sink, reader.pos))
     ELSE Goes(reader.pos + 4,
               <<Loop("bytes", read_u32(sink, reader.pos).val, 0, 0), OneLess>> \o Outer)
  /\ UNCHANGED <<pc, input, sink, result, builder>>

\* one pass of the loop over the LOD levels: the count of its triangles
StepLodLevel ==
  /\ Running
  /\ Innermost.op = "lod_levels"
  /\ Innermost.n > 0
  /\ IF ~read_u32(sink, reader.pos).ok THEN Fails(read_u32(sink, reader.pos))
     ELSE Goes(reader.pos + 4,
               <<Loop("triangles", read_u32(sink, reader.pos).val, 0, 0), OneLess>> \o Outer)
  /\ UNCHANGED <<pc, input, sink, result, builder>>

\* one pass of the loop over the materials, up to the loop of its name:
\* Material::read(r, lod_levels.len())
StepMaterial ==
  /\ Running
  /\ Innermost.op = "materials"
  /\ Innermost.n > 0
  /\ IF ~read_u32(sink, reader.pos).ok THEN Fails(read_u32(sink, reader.pos))
     ELSE Goes(reader.pos + 4,
               <<Loop("bytes", read_u32(sink, reader.pos).val, 0, 0),
                 Loop("fixed", 1, 1, 0),
                 Loop("selections", Innermost.a, 0, 0),
                 Loop("fixed", 1, 2, 0),
                 Loop("string", 1, 0, 0),
                 OneLess>> \o Outer)
  /\ UNCHANGED <<pc, input, sink, result, builder>>

\* one pass of the loop over the frames, up to the loop of its vertices:
\* Frame::read(r, quantities.vertices, tag_points.len())
StepFrame ==
  /\ Running
  /\ Innermost.op = "frames"
  /\ Innermost.n > 0
  /\ IF ~read_u32(sink, reader.pos).ok THEN Fails(read_u32(sink, reader.pos))
     ELSE Goes(reader.pos + 4,
               <<Loop("vertices", Innermost.a, 0, 0),
                 Loop("tag_positions", Innermost.b, 0, 0),
                 Loop("fixed", 1, 16 + 6, 0),
                 OneLess>> \o Outer)
  /\ UNCHANGED <<pc, input, sink, result, builder>>

\* a loop with no pass left is left
StepLeave ==
  /\ Running
  /\ Innermost.op # "model"
  /\ Innermost.op # "fixed"
  /\ Innermost.n = 0
  /\ Goes(reader.pos, Outer)
  /\ UNCHANGED <<pc, input, sink, result, builder>>

NextRead ==
  \/ StepScene
  \/ StepModel
  \/ StepItem
  \/ StepFixed
  \/ StepString
  \/ StepLodLevel
  \/ StepMaterial
  \/ StepFrame
  \/ StepLeave

\* the reader is run until it returns
SpecRead == InitRead /\ [][NextRead]_vars /\ WF_vars(NextRead)

(***************************************************************************)
(* Properties of the string codec.                                         *)
(***************************************************************************)
\* the characters of s that are left once its trailing NULs are gone
Kept(s) ==
  LET last == {k \in 1..Len(s) : s[k] # 0} IN
  IF last = {} THEN 0 ELSE CHOOSE k \in last : \A j \in last : j <= k

\* the little-endian u32 held by the first four bytes of b
Prefix(b) == b[1] + 256 * b[2] + 65536 * b[3] + 16777216 * b[4]

\* C7: a string whose characters all have code points in 1..=0xFF is returned
\* unchanged by writing it and reading the written bytes back, in both copies
\* of the string codec.
C7_StringRoundTrip ==
  (pc = "string_read" /\ \A i \in 1..Len(input.s) : input.s[i] \in 1..255)
    => (result.ok /\ result.val = input.s /\ result.pos = Len(sink))

C7_Witness ==
  /\ pc = "string_read"
  /\ input.s = <<72, 255, 1>>
  /\ result.ok
  /\ result.val = <<72, 255, 1>>

\* C8: the writer trims trailing NULs, writes the length (remaining characters
\* + 1) as a little-endian u32, one byte per remaining character and a closing
\* zero byte: the bytes after the length field number exactly the length value
\* and the last of them is 0.
C8_WriterLayout ==
  pc = "string_written"
    => /\ result.ok
       /\ Len(sink) = 4 + Kept(input.s) + 1
       /\ Prefix(sink) = Kept(input.s) + 1
       /\ Len(sink) - 4 = Prefix(sink)
       /\ sink[Len(sink)] = 0

C8_Witness ==
  /\ pc = "string_written"
  /\ input.s = <<72, 0, 0>>
  /\ sink = <<2, 0, 0, 0, 72, 0>>

\* C9: every character of a written string with code point at most 0xFF is
\* emitted as that byte, and every character with a code point above 0xFF is
\* emitted as '?' (0x3F).
C9_Latin1OrQuestionMark ==
  pc = "string_written"
    => \A i \in 1..Kept(input.s) :
         sink[4 + i] = IF input.s[i] <= 255 THEN input.s[i] ELSE 63

\* C10: given a length prefix L followed by at least L bytes, the reader
\* consumes exactly 4 + L bytes and returns the bytes that precede the first
\* zero byte of the field (all L bytes when there is none).
C10_ReaderConsumesField ==
  (pc = "field_read" /\ Len(input.body) >= input.len)
    => LET zeros == {i \in 1..input.len : input.body[i] = 0}
           cut == IF zeros = {} THEN input.len
                  ELSE (CHOOSE i \in zeros : \A j \in zeros : i <= j) - 1
       IN /\ result.ok
          /\ result.pos = 4 + input.len
          /\ result.val = SubSeq(input.body, 1, cut)

C10_Witness ==
  /\ pc = "field_read"
  /\ input.len = 3
  /\ input.body = <<72, 0, 255, 72>>
  /\ result.val = <<72>>
  /\ result.pos = 7

(***************************************************************************)
(* Properties of the V2 model codec.                                       *)
(***************************************************************************)
\* a model that lacks a material, a LOD level or a frame
EmptyCollection(m) == Len(m.materials) = 0 \/ Len(m.lod_levels) = 0 \/ Len(m.frames) = 0

\* every character of s has a code point in 1..=0xFF
Latin1NoNul(s) == \A i \in 1..Len(s) : s[i] \in 1..255

\* the counts the format stores once are the same wherever the model repeats them
Uniform(m) ==
  /\ \A f \in 1..Len(m.frames) :
       /\ Len(m.frames[f].vertices) = Len(m.frames[1].vertices)
       /\ Len(m.frames[f].tag_points) = Len(m.tag_points)
  /\ \A i \in 1..Len(m.materials) : Len(m.materials[i].triangles) = Len(m.lod_levels)

\* every string of the model survives the string codec
PlainStrings(m) ==
  /\ Latin1NoNul(m.root.name)
  /\ \A i \in 1..Len(m.materials) :
       Latin1NoNul(m.materials[i].name) /\ Latin1NoNul(m.materials[i].texture_name)
  /\ \A k \in 1..Len(m.tag_points) : Latin1NoNul(m.tag_points[k])

\* C1 (as stated): for every model with at least one material, one LOD level
\* and one frame, Model::write succeeds and Model::read of the written bytes
\* succeeds and returns a model equal to the original in every field.
C1_RoundTripOfNonEmpty ==
  /\ (pc = "model_written" /\ ~EmptyCollection(input)) => result.ok
  /\ pc = "model_read" => (result.ok /\ result.val = input)

\* C1 (amended): the round trip holds for the non-empty models whose frames all
\* carry as many vertices as the first and as many tag points as the model has
\* tag-point names, whose materials all carry one selection per LOD level, and
\* whose strings have all their characters in 1..=0xFF; the read then also
\* ends exactly at the end of the written bytes.
C1_RoundTripOfUniform ==
  /\ (pc = "model_written" /\ ~EmptyCollection(input)) => result.ok
  /\ (pc = "model_read" /\ Uniform(input) /\ PlainStrings(input))
       => (result.ok /\ result.val = input /\ result.pos = Len(sink))

C1_Witness ==
  /\ pc = "model_read"
  /\ Uniform(input)
  /\ PlainStrings(input)
  /\ Len(input.frames) = 2
  /\ Len(input.lod_levels) = 2
  /\ Len(input.materials) = 2
  /\ input.tag_points = <<<<84>>, <<84, 50>>>>
  /\ result.ok
  /\ result.val = input

\* C5: Model::write of a model with no material, no LOD level or no frame
\* returns an InvalidData error and has put no byte into the sink.
C5_EmptyModelRejected ==
  (pc = "model_written" /\ EmptyCollection(input))
    => (~result.ok /\ result.err.kind = "InvalidData" /\ sink = <<>>)

C5_Witness ==
  /\ pc = "model_written"
  /\ Len(input.materials) = 1
  /\ Len(input.lod_levels) = 0
  /\ Len(input.frames) = 2
  /\ ~result.ok
  /\ result.err = InvalidData(<<"A model must have at least 1 LOD level">>)
  /\ sink = <<>>

\* the seven little-endian u32 values at the start of the written bytes
WrittenQuantities == read_words(sink, begin(0), 7).val

\* C6: in the quantities block that Model::write puts first, triangles is
\* lod_levels[0].len(), vertices is frames[0].vertices.len(), and tags,
\* materials, frames and lod_levels are the lengths of those collections.
C6_QuantitiesDerived ==
  (pc = "model_written" /\ result.ok)
    => /\ WrittenQuantities[1] = Len(input.lod_levels[1])
       /\ WrittenQuantities[2] = Len(input.frames[1].vertices)
       /\ WrittenQuantities[3] = Len(input.tag_points)
       /\ WrittenQuantities[4] = Len(input.materials)
       /\ WrittenQuantities[5] = Len(input.frames)
       /\ WrittenQuantities[7] = Len(input.lod_levels)

(***************************************************************************)
(* Properties of the scene assembler.                                      *)
(***************************************************************************)
\* C2: Scene::<M>::read goes past the header only when the header read equals
\* M::HEADER in magic, major and minor; for every other header it returns the
\* InvalidData error that carries M::HEADER and the header read, having
\* consumed the 8 header bytes and nothing of the body, whichever version the
\* body is; under M::HEADER a body of M's format is decoded.
C2_HeaderGate ==
  pc = "foreign_read"
    => IF input.header = HEADER(input.M)
       THEN /\ result.pos > 8
            /\ input.format = input.M
                 => (result.ok /\ result.val.name = input.name /\ result.pos = Len(sink))
       ELSE /\ ~result.ok
            /\ result.err.kind = "InvalidData"
            /\ result.err.msg =
                 <<"Wrong model header: expected ", HEADER(input.M), ", got ", input.header>>
            /\ result.pos = 8

C2_Witness ==
  /\ pc = "foreign_read"
  /\ input.M = "V2"
  /\ input.format = "V5"
  /\ input.header = V5_HEADER
  /\ ~result.ok
  /\ result.err.kind = "InvalidData"
  /\ result.pos = 8

RECURSIVE Flatten(_)
\* the sequences of a sequence, one after the other
Flatten(ss) == IF Len(ss) = 0 THEN <<>> ELSE ss[1] \o Flatten(Tail(ss))

RECURSIVE PreOrder(_)
\* the nodes of a scene: the root, then the nodes of each child in list order
PreOrder(scene) ==
  <<scene>> \o Flatten([i \in 1..Len(scene.children) |-> PreOrder(scene.children[i])])

\* the child count the body of a decoded node reported
Reported(M, model) ==
  IF M = "V2" THEN model.additional_models ELSE model.quantities.additional_models

RECURSIVE Declared(_, _)
\* the child counts declared by the first k nodes of a stream, added up
Declared(nodes, k) == IF k = 0 THEN 0 ELSE nodes[k].declared + Declared(nodes, k - 1)

\* the first k nodes of a stream are one complete scene: they declare k - 1
\* children in all, and no shorter prefix is complete
CompleteScene(nodes, k) ==
  /\ Declared(nodes, k) = k - 1
  /\ \A j \in 1..(k - 1) : Declared(nodes, j) >= j

\* C3: read_without_header decodes exactly as many child scenes as the body
\* reports, from the bytes that follow the body, in stream order and with the
\* codec of the root: the decoded nodes are the first nodes of the stream in
\* their order, every node has as many children as its body reported, the
\* bytes consumed are exactly those of the decoded nodes, and the decode
\* succeeds exactly when the stream starts with one complete scene of nodes of
\* M's format.
C3_ChildrenByCount ==
  pc = "scene_read"
    => /\ result.ok <=> (\E k \in 1..Len(input.nodes) :
                           /\ CompleteScene(input.nodes, k)
                           /\ \A i \in 1..k : input.nodes[i].format = input.M)
       /\ result.ok
            => /\ Len(PreOrder(result.val)) <= Len(input.nodes)
               /\ \A i \in 1..Len(PreOrder(result.val)) :
                    /\ PreOrder(result.val)[i].name = input.nodes[i].name
                    /\ Reported(input.M, PreOrder(result.val)[i].model) = input.nodes[i].declared
                    /\ Len(PreOrder(result.val)[i].children) = input.nodes[i].declared
               /\ result.pos = Len(StreamOf(SubSeq(input.nodes, 1, Len(PreOrder(result.val)))))

C3_Witness ==
  /\ pc = "scene_read"
  /\ input.M = "V5"
  /\ Len(input.nodes) = 3
  /\ input.nodes[1].declared = 2
  /\ input.tail = <<7>>
  /\ result.ok
  /\ Len(result.val.children) = 2
  /\ result.val.children[1].name = NodeName(2)
  /\ result.val.children[2].name = NodeName(3)
  /\ result.pos = Len(sink) - 1

\* the bytes of one node of a scene: M::HEADER, then the body M::write makes of
\* the node's model, its name and the number of its children
WrittenNode(M, scene) ==
  ModelHeader_write(HEADER(M))
    \o M_write(M, scene.model,
               [additional_models |-> Len(scene.children), name |-> scene.name]).bytes

\* the bytes of the nodes of a scene, parent first, children in list order
WrittenNodes(M, scene) ==
  Flatten([i \in 1..Len(PreOrder(scene)) |-> WrittenNode(M, PreOrder(scene)[i])])

\* C4: Scene::write emits the nodes in pre-order, each as M::HEADER followed
\* by the body that carries the node's name and children.len() as its child
\* count, the children after their parent in list order; a write that fails
\* has put a prefix of those bytes into the sink.
C4_PreOrderWrite ==
  pc = "scene_written"
    => IF result.ok THEN sink = WrittenNodes(input.M, input.scene)
       ELSE /\ Len(sink) <= Len(WrittenNodes(input.M, input.scene))
            /\ sink = SubSeq(WrittenNodes(input.M, input.scene), 1, Len(sink))

C4_Witness ==
  /\ pc = "scene_written"
  /\ input.M = "V2"
  /\ input.kind = "stale"
  /\ Len(input.scene.children) = 1
  /\ Len(input.scene.children[1].children) = 1
  /\ result.ok
  /\ Scene_read(input.M, sink, 0).ok
  /\ Scene_read(input.M, sink, 0).val.children[1].children[1].name = NodeName(3)
  /\ Scene_read(input.M, sink, 0).val.model.additional_models = 1

(***************************************************************************)
(* Properties of the matrix codecs.                                        *)
(***************************************************************************)
\* the element in column c, row r (both 0..3) of a cgmath matrix
Element(m, c, r) ==
  LET col == IF c = 0 THEN m.x ELSE IF c = 1 THEN m.y ELSE IF c = 2 THEN m.z ELSE m.w IN
  IF r = 0 THEN col.x ELSE IF r = 1 THEN col.y ELSE IF r = 2 THEN col.z ELSE col.w

\* the k-th (0..15) little-endian 32 bit value of the sink
WireValue(k) == read_u32(sink, 4 * k).val

\* C11: the Matrix4 codec writes in column-major order: the k-th value on the
\* wire is the element in column k div 4, row k mod 4 of the matrix.
C11_ColumnMajorWire ==
  (pc = "matrix_written" /\ input.codec = "Matrix4")
    => \A k \in 0..15 : WireValue(k) = Element(input.matrix, k \div 4, k % 4)

\* C12: a matrix written and read back has the same elements at the same
\* places, and sixteen wire values read and written again are the same values
\* in the same order, for the Matrix4 codec and for the Mat4 codec.
C12_MatrixRoundTrip ==
  /\ pc = "matrix_read"
       => (result.ok /\ result.val = input.matrix /\ result.pos = Len(sink))
  /\ pc = "wire_read" => (result.ok /\ result.pos = Len(sink))
  /\ pc = "wire_rewritten" => (result.bytes = sink /\ result.bytes = write_words(input.wire))

C12_Witness ==
  /\ pc = "wire_rewritten"
  /\ input.codec = "Matrix4"
  /\ input.wire = [i \in 1..16 |-> IF i = 2 THEN 1065353216 ELSE 0]
  /\ result.bytes = sink
  /\ Matrix4_read(sink, 0).val.y.x = 1065353216

(***************************************************************************)
(* Claims about the collider builders.                                     *)
(***************************************************************************)
Origin == Point3(Finite(0), Finite(0), Finite(0))

\* C13: ColliderBuilder::build on a builder that received no update returns,
\* for any center, radius 0 and the box with lower = upper = (0,0,0); and no
\* build, after any updates, returns the inverted infinite box.
C13_EmptyColliderIsZero ==
  pc = "collider_built" =>
    /\ result.aabb # INFINITE_AABB
    /\ input.points = <<>> =>
         /\ result.radius = Finite(0)
         /\ result.aabb.lower = Origin
         /\ result.aabb.upper = Origin

\* a build with no update, around the center that is no location
C13_Witness ==
  /\ pc = "collider_built"
  /\ input.points = <<>>
  /\ input.center.x = NAN
  /\ builder.aabb = INFINITE_AABB
  /\ result.aabb = Aabb_default

IsFinite(point) == point.x.kind = "num" /\ point.y.kind = "num" /\ point.z.kind = "num"

\* the least and the greatest of a non-empty set of integers
Least(S) == CHOOSE v \in S : \A w \in S : v <= w

Greatest(S) == CHOOSE v \in S : \A w \in S : w <= v

Observed == {input.points[i] : i \in 1..Len(input.points)}

\* the squared Euclidean distance of two finite points, as an integer
SquaredDistance(a, b) ==
  (a.x.v - b.x.v) * (a.x.v - b.x.v) + (a.y.v - b.y.v) * (a.y.v - b.y.v)
    + (a.z.v - b.z.v) * (a.z.v - b.z.v)

\* the square of a radius
Squared(r) == IF r.kind = "sqrt" THEN Finite(r.v) ELSE f32_square(r)

\* C14: after a non-empty sequence of ColliderBuilder::update calls around a
\* fixed (finite) center, build returns the box whose corners are the
\* component-wise minimum and maximum of the observed points and a radius
\* whose square is the greatest squared distance of an observed point to the
\* center; one point equal to the center gives radius 0 and lower = upper =
\* that point.
C14_ColliderOfPoints ==
  (pc = "collider_built" /\ input.points # <<>> /\ IsFinite(input.center)) =>
    /\ result.aabb.lower = Point3(Finite(Least({q.x.v : q \in Observed})),
                                  Finite(Least({q.y.v : q \in Observed})),
                                  Finite(Least({q.z.v : q \in Observed})))
    /\ result.aabb.upper = Point3(Finite(Greatest({q.x.v : q \in Observed})),
                                  Finite(Greatest({q.y.v : q \in Observed})),
                                  Finite(Greatest({q.z.v : q \in Observed})))
    /\ Squared(result.radius) =
         Finite(Greatest({SquaredDistance(q, input.center) : q \in Observed}))
    /\ input.points = <<input.center>> =>
         /\ result.radius = Finite(0)
         /\ result.aabb = [lower |-> input.center, upper |-> input.center]

\* three different points seen, the farthest of them not the last, and a
\* radius that is not a whole number
C14_Witness ==
  /\ pc = "collider_built"
  /\ IsFinite(input.center)
  /\ Len(input.points) = 3
  /\ Cardinality(Observed) = 3
  /\ result.radius.kind = "sqrt"
  /\ SquaredDistance(input.points[3], input.center) < result.radius.v
  /\ result.aabb.lower.x # result.aabb.upper.x

\* C15: after a non-empty sequence of CenterBuilder::update calls, build
\* returns the point whose every coordinate is (min + max) / 2 of that
\* coordinate over the observed points.
C15_CenterIsMidpoint ==
  (pc = "center_built" /\ input.points # <<>>) =>
    result = Point3(
      Finite((Least({q.x.v : q \in Observed}) + Greatest({q.x.v : q \in Observed})) \div 2),
      Finite((Least({q.y.v : q \in Observed}) + Greatest({q.y.v : q \in Observed})) \div 2),
      Finite((Least({q.z.v : q \in Observed}) + Greatest({q.z.v : q \in Observed})) \div 2))

\* three different points seen and a midpoint that is none of them
C15_Witness ==
  /\ pc = "center_built"
  /\ Cardinality(Observed) = 3
  /\ result \notin Observed
  /\ result.x # Finite(0)
  /\ result.z # Finite(0)

(***************************************************************************)
(* Claims about the V1 material.                                           *)
(***************************************************************************)
\* the position just after the flag byte of the material in the sink
AfterFlag == 4 + 4 * input.indices + 1

\* C16: in v1::Material::read the flag byte decides: 0 gives no texture and
\* nothing more is read; 1 gives a texture read as one string and then one
\* u32; any other byte fails with InvalidData and nothing more is read.
C16_FlagDecides ==
  pc = "material_read" =>
    /\ input.flag = 0 =>
         /\ result.ok
         /\ result.val.texture = <<>>
         /\ result.pos = AfterFlag
    /\ input.flag = 1 =>
         IF input.rest >= 10
         THEN /\ result.ok
              /\ result.val.texture = << <<(<<72, 255>>), 7>> >>
              /\ result.pos = AfterFlag + 10
         ELSE /\ ~result.ok
              /\ result.err = UnexpectedEof
    /\ input.flag \notin {0, 1} =>
         /\ ~result.ok
         /\ result.err = InvalidData(<<"A boolean must be 0 or 1, got ", input.flag>>)
         /\ result.pos = AfterFlag
    /\ result.ok => result.val.indices = [i \in 1..input.indices |-> 40 + i]

\* a flag byte of 255 in front of a whole texture
C16_Witness ==
  /\ pc = "material_read"
  /\ input.flag = 255
  /\ input.indices = MaxCount
  /\ input.rest = Len(TextureBytes)
  /\ ~result.ok
  /\ result.pos < Len(sink)

(***************************************************************************)
(* Claims about the V5 reader.                                             *)
(***************************************************************************)
\* the sink holds the frames count of the quantities, and it is at least 1
DeclaresFrames == input.cut >= 20 /\ input.frames >= 1

\* the position of the shadow length in the sink
ShadowAt == Len(V5Head(input.frames)) + 12

\* the sink holds the shadow length, and it is at least 1
DeclaresShadow == input.cut >= ShadowAt + 4 /\ input.shadow >= 1

\* every read before the first Frame::read or ShadowEdge::read has its bytes
ReachesUnimplemented ==
  \/ input.frames >= 1 /\ input.cut >= Len(V5Head(input.frames))
  \/ input.frames = 0 /\ DeclaresShadow

\* C17 as stated: every input whose frames count or shadow length is at least
\* 1 ends V5::read in the unimplemented condition, and a returned model has no
\* frame and no shadow edge.
C17_AlwaysUnimplemented ==
  pc = "v5_read" =>
    /\ (DeclaresFrames \/ DeclaresShadow) =>
         (~result.ok /\ result.err = Unimplemented /\ result.val = <<>>)
    /\ result.ok => (result.val.model.frames = <<>> /\ result.val.model.shadow = <<>>)

\* C17, amended: an input whose frames count or shadow length is at least 1
\* yields no model; V5::read ends in the unimplemented condition when every
\* read before the first frame or shadow edge succeeds, and in the error of
\* the failing read otherwise; a returned model has no frame and no shadow
\* edge.
C17_NoFabricatedFrames ==
  pc = "v5_read" =>
    /\ (DeclaresFrames \/ DeclaresShadow) =>
         /\ ~result.ok
         /\ result.val = <<>>
         /\ result.err = IF ReachesUnimplemented THEN Unimplemented ELSE UnexpectedEof
    /\ result.ok => (result.val.model.frames = <<>> /\ result.val.model.shadow = <<>>)
    /\ (input.frames = 0 /\ input.shadow = 0 /\ input.cut >= ShadowAt + 4) => result.ok

\* a whole body with no frame that declares shadow edges
C17_Witness ==
  /\ pc = "v5_read"
  /\ input.frames = 0
  /\ input.shadow = MaxCount
  /\ input.cut = Len(V5Stream(0, MaxCount))
  /\ result.err = Unimplemented

(***************************************************************************)
(* Claims about failing scene reads.                                       *)
(***************************************************************************)
\* C18: when the stream ends before the end of a scene encoding, Scene::read
\* returns the end-of-stream error of the first read that lacks bytes (a read
\* of at most four bytes that starts within the stream and would end beyond
\* it), reads nothing after it and returns no scene, partial or whole; the
\* whole encoding decodes to the complete tree.
C18_ErrorOrCompleteTree ==
  pc = "truncated_read" =>
    IF input.cut < Len(StreamOf(input.nodes))
    THEN /\ ~result.ok
         /\ result.err = UnexpectedEof
         /\ result.val = <<>>
         /\ result.pos <= input.cut
         /\ input.cut < result.pos + 4
    ELSE /\ result.ok
         /\ result.pos = input.cut
         /\ Len(PreOrder(result.val)) = Len(input.nodes)

\* a stream that ends inside its last node, after two whole nodes
C18_Witness ==
  /\ pc = "truncated_read"
  /\ Len(input.nodes) = 3
  /\ input.nodes[1].declared = 2
  /\ input.cut > Len(StreamOf(SubSeq(input.nodes, 1, 2))) + 8
  /\ input.cut < Len(StreamOf(input.nodes))
  /\ ~result.ok

\* C19: every node of a stream, at any depth, has its header compared with
\* M::HEADER: when a node carries a header of another version or magic, the
\* top-level Scene::read returns the format-mismatch error naming M::HEADER
\* and that header, raised right after the 8 header bytes of that node, and
\* no tree of the nodes decoded before it.
C19_EveryHeaderChecked ==
  pc = "misheaded_read" =>
    /\ ~result.ok
    /\ result.val = <<>>
    /\ result.err = WrongHeader(input.M, input.nodes[input.bad].header)
    /\ result.pos = Len(StreamOf(SubSeq(input.nodes, 1, input.bad - 1))) + 8

\* a grandchild of the root, in the root's own format, under a wrong magic
C19_Witness ==
  /\ pc = "misheaded_read"
  /\ Len(input.nodes) = 3
  /\ input.nodes[2].declared = 1
  /\ input.bad = 3
  /\ input.nodes[3].format = input.M
  /\ input.nodes[3].header.magic # MAGIC
  /\ result.err.kind = "InvalidData"

(***************************************************************************)
(* Claims about what the V2 reader leaves unchecked.                       *)
(***************************************************************************)
\* material i of model m selects triangles beyond the end of a LOD level
SelectsBeyond(m, i) ==
  \E k \in 1..Len(m.lod_levels) :
    m.materials[i].triangles[k].offset + m.materials[i].triangles[k].len
      > Len(m.lod_levels[k])

\* material i of model m names vertices beyond the end of the vertex array
VerticesBeyond(m, i) ==
  m.materials[i].vertex_offset + m.materials[i].vertex_count > Len(m.frames[1].vertices)

\* C20: Model::read validates no count: a stream whose quantities.triangles
\* differs from the number of triangles of LOD level 0, or in which a
\* material's selection or vertex range ends beyond the array it refers to,
\* is decoded, and the decoded model holds the triangles value of the wire and
\* the ranges as they stand in the stream.
C20_CountsNotValidated ==
  (pc = "model_read" /\ Uniform(input)) =>
    /\ result.ok
    /\ result.pos = Len(sink)
    /\ result.val.triangles = WrittenQuantities[1]
    /\ result.val.lod_levels = input.lod_levels
    /\ Len(result.val.materials) = Len(input.materials)
    /\ \A i \in 1..Len(input.materials) :
         /\ result.val.materials[i].triangles = input.materials[i].triangles
         /\ result.val.materials[i].vertex_offset = input.materials[i].vertex_offset
         /\ result.val.materials[i].vertex_count = input.materials[i].vertex_count

\* a decoded model whose triangles value is not the length of LOD level 0 and
\* whose second material selects triangles and names vertices out of range
C20_Witness ==
  /\ pc = "model_read"
  /\ result.ok
  /\ result.val.triangles = 7
  /\ Len(result.val.lod_levels[1]) = 1
  /\ Len(result.val.materials) = 2
  /\ SelectsBeyond(result.val, 2)
  /\ VerticesBeyond(result.val, 2)

(***************************************************************************)
(* Claims about the shape and the extent of what Scene::read decodes.      *)
(***************************************************************************)
RECURSIVE HasShape(_, _, _)
\* the scene is the tree of depth d with n children per node above the leaves
HasShape(scene, d, n) ==
  IF d = 0 THEN scene.children = <<>>
  ELSE /\ Len(scene.children) = n
       /\ \A i \in 1..n : HasShape(scene.children[i], d - 1, n)

\* C21: Scene::read has no bound of its own on depth or branching: the
\* well-formed stream of the tree of depth d with n children per node decodes,
\* for every d and n, to the tree of that depth and branching, all of the
\* stream consumed.
C21_DepthAndBranchingByCount ==
  pc = "tree_read" =>
    /\ result.ok
    /\ HasShape(result.val, input.depth, input.branching)
    /\ Len(PreOrder(result.val)) = Len(input.nodes)
    /\ result.pos = Len(sink)

\* the deepest and widest tree
C21_Witness ==
  /\ pc = "tree_read"
  /\ input.depth = MaxDepth
  /\ input.branching = MaxBranching
  /\ result.ok
  /\ Len(result.val.children) = MaxBranching
  /\ Len(result.val.children[MaxBranching].children) = MaxBranching

\* C22: a model returned by Model::read has as many LOD levels, materials,
\* tag-point names and frames as the quantities block of the stream says,
\* every frame has quantities.vertices vertices and one tag point per
\* tag-point name, and every material has one triangle selection per LOD
\* level.
C22_LengthsAreQuantities ==
  (pc = "model_read" /\ result.ok) =>
    /\ Len(result.val.lod_levels) = WrittenQuantities[7]
    /\ Len(result.val.materials) = WrittenQuantities[4]
    /\ Len(result.val.tag_points) = WrittenQuantities[3]
    /\ Len(result.val.frames) = WrittenQuantities[5]
    /\ \A f \in 1..Len(result.val.frames) :
         /\ Len(result.val.frames[f].vertices) = WrittenQuantities[2]
         /\ Len(result.val.frames[f].tag_points) = Len(result.val.tag_points)
    /\ \A i \in 1..Len(result.val.materials) :
         Len(result.val.materials[i].triangles) = Len(result.val.lod_levels)

\* a stream written from a model whose second frame has more vertices than the
\* first, decoded to a model other than the one written
C22_Witness ==
  /\ pc = "model_read"
  /\ result.ok
  /\ Len(input.frames) = 2
  /\ Len(input.frames[2].vertices) > Len(input.frames[1].vertices)
  /\ Len(result.val.frames[2].vertices) = 1
  /\ result.val # input

(***************************************************************************)
(* Claims about a Scene::write that fails.                                 *)
(***************************************************************************)
\* C23: Scene::write validates no node before it emits: when the body write
\* of the k-th node, parent first, fails its validation, the sink holds the
\* whole encodings of the nodes before k, then the 8 header bytes of node k,
\* and nothing after them.
C23_FailureAfterHeader ==
  (pc = "flawed_written" /\ input.M = "V2") =>
    /\ ~result.ok
    /\ result.err.kind = "InvalidData"
    /\ sink = Flatten([i \in 1..(input.k - 1) |->
                         WrittenNode(input.M, PreOrder(input.scene)[i])])
                \o ModelHeader_write(HEADER(input.M))

\* the last of three nodes has no frame: two whole nodes and a header are in
\* the sink
C23_Witness ==
  /\ pc = "flawed_written"
  /\ input.M = "V2"
  /\ input.k = 3
  /\ input.flaw = "frames"
  /\ Len(input.scene.children) = 2
  /\ Len(sink) > 8 + 2 * 8
  /\ ModelHeader_read(sink, Len(sink) - 8).val = V2_EXPECTED_MODEL_HEADER
  /\ Scene_read("V2", sink, 0).err = UnexpectedEof

(***************************************************************************)
(* Claims about reading back what Scene::write wrote.                      *)
(***************************************************************************)
\* a V2 model without the two fields Scene::write takes from the scene
OwnFields(model) == [model EXCEPT !.additional_models = 0, !.root.name = <<>>]

RECURSIVE SameScene(_, _)
\* two scenes of the same names, models and children
SameScene(a, b) ==
  /\ a.name = b.name
  /\ OwnFields(a.model) = OwnFields(b.model)
  /\ Len(a.children) = Len(b.children)
  /\ \A i \in 1..Len(a.children) : SameScene(a.children[i], b.children[i])

\* every model of the scene keeps the counts the format stores once
AllUniform(scene) == \A i \in 1..Len(PreOrder(scene)) : Uniform(PreOrder(scene)[i].model)

\* every string of every model of the scene survives the string codec
AllPlain(scene) ==
  \A i \in 1..Len(PreOrder(scene)) :
    PlainStrings([PreOrder(scene)[i].model EXCEPT !.root.name = PreOrder(scene)[i].name])

\* C24 as stated: Scene::read of what Scene::write produced, followed by any
\* bytes, returns the scene and stops at the first trailing byte, having
\* consumed as many bytes as Scene::write produced.
C24_ReadConsumesWritten ==
  pc = "tailed_read" =>
    /\ result.ok
    /\ result.pos = input.written
    /\ SameScene(result.val, input.scene)

\* C24, amended: for a scene whose models all have frames of one vertex count
\* with one tag point per tag-point name and materials with one selection per
\* LOD level, Scene::read of what Scene::write produced, followed by any
\* bytes, succeeds and stops at the first trailing byte, having consumed as
\* many bytes as Scene::write produced; it returns the scene when, moreover,
\* every string has all its characters in 1..=0xFF.
C24_ReadConsumesUniform ==
  (pc = "tailed_read" /\ AllUniform(input.scene)) =>
    /\ result.ok
    /\ result.pos = input.written
    /\ AllPlain(input.scene) => SameScene(result.val, input.scene)

\* three nodes, the last one with two tag points, read in front of the start
\* of one more node
C24_Witness ==
  /\ pc = "tailed_read"
  /\ Len(PreOrder(input.scene)) = 3
  /\ input.k = 3
  /\ input.variant = "tags"
  /\ Len(input.tail) = 12
  /\ result.ok
  /\ result.pos = Len(sink) - 12
  /\ SameScene(result.val, input.scene)

(***************************************************************************)
(* Claims about the termination of Scene::read.                            *)
(***************************************************************************)
\* a pass of a loop has read at least one byte, or a read has failed, or a
\* loop with no pass left has been left
Progress ==
  \/ reader'.outcome = "error"
  \/ reader'.pos > reader.pos
  \/ reader.loops[1].n = 0 /\ reader'.loops = Tail(reader.loops)

\* the stream declares, in a place that drives a loop, a count beyond its length
Oversized == input.value = Huge /\ input.at # 8

\* every count a loop of the run was given is below this
Modest == 256 * 256

\* the reader has returned; where its counts were modest, what it returned is
\* what Scene::read returns for the stream; where a count is beyond the stream,
\* it is the error of the stream's end
Returned ==
  /\ reader.outcome # "running"
  /\ reader.loops = <<>>
  /\ reader.most < Modest
       => /\ (reader.outcome = "ok") = Scene_read("V2", sink, 0).ok
          /\ reader.pos = Scene_read("V2", sink, 0).pos
          /\ reader.err = Scene_read("V2", sink, 0).err
  /\ Oversized => (reader.outcome = "error" /\ reader.err = UnexpectedEof)

\* C25: Scene::read returns on every stream, with a scene or an error, whatever
\* counts the stream declares: every pass of every count-driven loop reads at
\* least one byte, so a count beyond the remaining input ends in the error of
\* a read.
C25_ReadTerminates == [][Progress]_vars /\ <>[]Returned

\* a root that declares 0xFFFFF children in front of two: the third pass of
\* the loop over the children has found the end of the stream
C25_Witness ==
  /\ pc = "reading"
  /\ input.at = 28
  /\ input.value = Huge
  /\ Len(input.nodes) = 3
  /\ input.nodes[1].declared = 2
  /\ reader.outcome = "error"
  /\ reader.err = UnexpectedEof
  /\ reader.pos = Len(sink)

(***************************************************************************)
(* The builders and the set of observed points.                            *)
(***************************************************************************)
RECURSIVE ColliderFed(_, _)
\* the collider builder b after one update with each point of the set S, the
\* points taken in an order that the set alone decides
ColliderFed(b, S) ==
  IF S = {} THEN b
  ELSE ColliderFed(ColliderBuilder_update(b, CHOOSE q \in S : TRUE),
                   S \ {CHOOSE q \in S : TRUE})

RECURSIVE CenterFed(_, _)
\* the same for the center builder
CenterFed(b, S) ==
  IF S = {} THEN b
  ELSE CenterFed(CenterBuilder_update(b, CHOOSE q \in S : TRUE),
                 S \ {CHOOSE q \in S : TRUE})

\* C26: what ColliderBuilder::build and CenterBuilder::build return depends
\* only on the set of observed points (and the center), not on their order or
\* multiplicity: it is what the builder returns after one update per observed
\* point, in an order that does not depend on the sequence of updates.
C26_SetOfPointsDecides ==
  /\ pc = "collider_built" =>
       result = ColliderBuilder_build(
                  ColliderFed(ColliderBuilder_begin(input.center), Observed))
  /\ pc = "center_built" =>
       result = CenterBuilder_build(CenterFed(CenterBuilder_begin, Observed))

\* a point observed twice with a farther one between: the farthest point is
\* neither the first nor the last observed
C26_Witness ==
  /\ pc = "collider_built"
  /\ IsFinite(input.center)
  /\ Len(input.points) = 3
  /\ input.points[1] = input.points[3]
  /\ input.points[2] # input.points[1]
  /\ SquaredDistance(input.points[2], input.center)
       > SquaredDistance(input.points[1], input.center)
  /\ SquaredDistance(input.points[1], input.center) > 0
  /\ Squared(result.radius) = Finite(SquaredDistance(input.points[2], input.center))

====
